---------------------------- MODULE Spec2Model ----------------------------
(***************************************************************************)
(* Model of the generation / validation / retry pipeline of the AI diagram *)
(* tool: the PlantUML validators (lib/plantuml.ts), the prompt builders    *)
(* and the retry orchestrators generateDiagram / editDiagram               *)
(* (lib/ai-providers.ts).                                                  *)
(*                                                                         *)
(* Strings.  A JavaScript string is a sequence of symbols.  A symbol is    *)
(* either one character ("[", "A", "\n") or a fixed literal phrase of the  *)
(* source written as one symbol ("Missing ", " directive").  Wherever the  *)
(* source searches a string for a literal (includes, indexOf, match), the  *)
(* searched literal is spelled with the same symbols in both places, so    *)
(* that the search is a search for a contiguous subsequence.               *)
(***************************************************************************)
EXTENDS Integers, Sequences, FiniteSets, TLC

(***************************************************************************)
(* String primitives                                                       *)
(***************************************************************************)

\* the literal lit occurs in s at the 1-based position i
OccursAt(s, i, lit) ==
  /\ i >= 1
  /\ i + Len(lit) - 1 <= Len(s)
  /\ SubSeq(s, i, i + Len(lit) - 1) = lit

\* String.prototype.includes
Contains(s, sub) ==
  \E i \in 0..(Len(s) - Len(sub)) : SubSeq(s, i + 1, i + Len(sub)) = sub

\* String.prototype.indexOf: 0-based index of the first occurrence, or -1
IndexOf(s, sub) ==
  IF Contains(s, sub)
  THEN CHOOSE i \in 0..(Len(s) - Len(sub)) :
         /\ SubSeq(s, i + 1, i + Len(sub)) = sub
         /\ \A j \in 0..(i - 1) : SubSeq(s, j + 1, j + Len(sub)) # sub
  ELSE -1

\* String.prototype.startsWith
StartsWith(s, pre) ==
  /\ Len(s) >= Len(pre)
  /\ SubSeq(s, 1, Len(pre)) = pre

\* the characters String.prototype.trim removes
WhiteSpace == {" ", "\n", "\t"}

RECURSIVE TrimLeft(_)
TrimLeft(s) ==
  IF s # <<>> /\ Head(s) \in WhiteSpace THEN TrimLeft(Tail(s)) ELSE s

RECURSIVE TrimRight(_)
TrimRight(s) ==
  IF s # <<>> /\ s[Len(s)] \in WhiteSpace
  THEN TrimRight(SubSeq(s, 1, Len(s) - 1))
  ELSE s

\* String.prototype.trim
Trim(s) == TrimRight(TrimLeft(s))

\* String.prototype.split with a one-character separator
RECURSIVE SplitFrom(_, _, _)
SplitFrom(s, sep, cur) ==
  IF s = <<>> THEN <<cur>>
  ELSE IF Head(s) = sep
       THEN <<cur>> \o SplitFrom(Tail(s), sep, <<>>)
       ELSE SplitFrom(Tail(s), sep, Append(cur, Head(s)))

Split(s, sep) == SplitFrom(s, sep, <<>>)

\* Array.prototype.join
RECURSIVE Join(_, _)
Join(strs, sep) ==
  IF strs = <<>> THEN <<>>
  ELSE IF Len(strs) = 1 THEN strs[1]
  ELSE strs[1] \o sep \o Join(Tail(strs), sep)

\* (s.match(/c/g) || []).length for a one-character pattern c
RECURSIVE CountChar(_, _)
CountChar(s, c) ==
  IF s = <<>> THEN 0
  ELSE (IF Head(s) = c THEN 1 ELSE 0) + CountChar(Tail(s), c)

\* the decimal digits of a template substitution ${n}, n >= 0
DigitChar(d) == <<"0", "1", "2", "3", "4", "5", "6", "7", "8", "9">>[d + 1]

RECURSIVE Digits(_)
Digits(n) ==
  IF n < 10 THEN <<DigitChar(n)>>
  ELSE Digits(n \div 10) \o <<DigitChar(n % 10)>>

UpperLetters ==
  <<"A", "B", "C", "D", "E", "F", "G", "H", "I", "J", "K", "L", "M",
    "N", "O", "P", "Q", "R", "S", "T", "U", "V", "W", "X", "Y", "Z">>

LowerLetters ==
  <<"a", "b", "c", "d", "e", "f", "g", "h", "i", "j", "k", "l", "m",
    "n", "o", "p", "q", "r", "s", "t", "u", "v", "w", "x", "y", "z">>

SeqRange(s) == {s[i] : i \in 1..Len(s)}

\* String.prototype.toLowerCase on one character
LowerChar(c) ==
  IF c \in SeqRange(UpperLetters)
  THEN LowerLetters[CHOOSE i \in 1..26 : UpperLetters[i] = c]
  ELSE c

\* String.prototype.toUpperCase on one character
UpperChar(c) ==
  IF c \in SeqRange(LowerLetters)
  THEN UpperLetters[CHOOSE i \in 1..26 : LowerLetters[i] = c]
  ELSE c

ToLowerCase(s) == [i \in 1..Len(s) |-> LowerChar(s[i])]

ToUpperCase(s) == [i \in 1..Len(s) |-> UpperChar(s[i])]

\* the character class \w of the regular expressions: [A-Za-z0-9_]
WordChars ==
  SeqRange(UpperLetters) \cup SeqRange(LowerLetters)
    \cup {"0", "1", "2", "3", "4", "5", "6", "7", "8", "9", "_"}

(***************************************************************************)
(* Literals of lib/plantuml.ts that are searched for in a diagram text,    *)
(* spelled character by character                                          *)
(***************************************************************************)

S_startuml == <<"@", "s", "t", "a", "r", "t", "u", "m", "l">>

S_enduml == <<"@", "e", "n", "d", "u", "m", "l">>

S_class == <<"c", "l", "a", "s", "s", " ">>

S_participant == <<"p", "a", "r", "t", "i", "c", "i", "p", "a", "n", "t">>

S_actor == <<"a", "c", "t", "o", "r">>

S_use == <<"u", "s", "e">>

S_start == <<"s", "t", "a", "r", "t">>

S_state == <<"s", "t", "a", "t", "e">>

S_node == <<"n", "o", "d", "e">>

S_initial == <<"[", "*", "]">>

S_arrow == <<"-", ">">>

S_longArrow == <<"-", "-", ">">>

S_asyncArrow == <<"-", ">", ">">>

S_backArrow == <<"<", "-">>

S_longBackArrow == <<"<", "-", "-">>

S_dashes2 == <<"-", "-">>

S_dashes3 == <<"-", "-", "-">>

S_blockComment == <<"/", "'">>

(***************************************************************************)
(* Verdicts: { valid, errors, suggestions }                                *)
(***************************************************************************)

Verdict(errors, suggestions) ==
  [valid |-> errors = <<>>, errors |-> errors, suggestions |-> suggestions]

NoFindings == [errors |-> <<>>, suggestions |-> <<>>]

\* mutant: the suggestion is recorded, the error is not
AddFinding_noError(acc, error, suggestion) ==
  [acc EXCEPT !.suggestions = Append(@, suggestion)]

\* mutant: the error is recorded without a suggestion
AddFinding_noSuggestion(acc, error, suggestion) ==
  [acc EXCEPT !.errors = Append(@, error)]

AddFinding(acc, error, suggestion) ==
  [acc EXCEPT !.errors = Append(@, error),
              !.suggestions = Append(@, suggestion)]

\* errors.push(...r.errors); suggestions.push(...r.suggestions)
Merge(acc, r) ==
  [acc EXCEPT !.errors = @ \o r.errors,
              !.suggestions = @ \o r.suggestions]

\* the comment test shared by the line checks
IsCommentLine(line) ==
  StartsWith(line, <<"'">>) \/ StartsWith(line, S_blockComment)

(***************************************************************************)
(* checkBalancedBrackets                                                   *)
(***************************************************************************)

Openers == {"(", "[", "{"}

Closers == {")", "]", "}"}

CloserOf(c) ==
  CASE c = "(" -> ")"
    [] c = "[" -> "]"
    [] c = "{" -> "}"

\* mutant: the error does not say where the closer is
UnmatchedError_noLine(char, lineNo) == <<"Unmatched '", char, "'">>

UnmatchedError(char, lineNo) ==
  <<"Unmatched '", char, "' on line ">> \o Digits(lineNo)

UnmatchedSuggestion(lineNo) ==
  <<"Check that all brackets and parentheses are properly matched on line ">>
    \o Digits(lineNo)

\* one entry of the list in the "Unclosed brackets/parentheses" error
UnclosedItem(item) == <<"'", item.char, "' on line ">> \o Digits(item.line)

\* the inner loop over the characters of one line; it stops at the first
\* closer that does not match (break), after the pop
RECURSIVE ScanLine(_, _, _, _)
ScanLine(line, i, lineNo, acc) ==
  IF i > Len(line) THEN acc
  ELSE
    LET char == line[i]
        empty == acc.stack = <<>>
        popped == IF empty THEN <<>>
                  ELSE SubSeq(acc.stack, 1, Len(acc.stack) - 1)
    IN  IF char \in Openers
        THEN ScanLine(line, i + 1, lineNo,
               [acc EXCEPT
                  !.stack = Append(@, [char |-> char, line |-> lineNo])])
        ELSE IF char \in Closers
        THEN IF empty \/ CloserOf(acc.stack[Len(acc.stack)].char) # char
             THEN [stack |-> popped,
                   errors |-> Append(acc.errors, UnmatchedError(char, lineNo)),
                   suggestions |->
                     Append(acc.suggestions, UnmatchedSuggestion(lineNo))]
             ELSE ScanLine(line, i + 1, lineNo, [acc EXCEPT !.stack = popped])
        ELSE ScanLine(line, i + 1, lineNo, acc)

\* the outer loop over the lines
RECURSIVE ScanLines(_, _, _)
ScanLines(lines, lineNum, acc) ==
  IF lineNum >= Len(lines) THEN acc
  ELSE ScanLines(lines, lineNum + 1,
                 ScanLine(lines[lineNum + 1], 1, lineNum + 1, acc))

checkBalancedBrackets(text) ==
  LET scan == ScanLines(Split(text, "\n"), 0,
                [stack |-> <<>>, errors |-> <<>>, suggestions |-> <<>>])
      unclosed ==
        Join([k \in 1..Len(scan.stack) |-> UnclosedItem(scan.stack[k])],
             <<",", " ">>)
      errors ==
        IF Len(scan.stack) > 0
        THEN Append(scan.errors,
                    <<"Unclosed brackets/parentheses: ">> \o unclosed)
        ELSE scan.errors
      suggestions ==
        IF Len(scan.stack) > 0
        THEN Append(scan.suggestions,
                    <<"Close all opened brackets and parentheses">>)
        ELSE scan.suggestions
  IN  Verdict(errors, suggestions)

(***************************************************************************)
(* checkStringTermination, checkCommonSyntaxErrors and                     *)
(* checkAdvancedSyntaxErrors                                               *)
(***************************************************************************)

StringTerminationLine(line, lineNo, acc) ==
  IF IsCommentLine(line) THEN acc
  ELSE IF CountChar(line, "\"") % 2 # 0
       THEN AddFinding(acc,
              <<"Unterminated string on line ">> \o Digits(lineNo)
                \o <<": ">> \o line,
              <<"Close all string quotes on line ">> \o Digits(lineNo))
       ELSE acc

\* the loop over the lines, each trimmed
RECURSIVE StringTerminationLines(_, _, _)
StringTerminationLines(lines, lineNum, acc) ==
  IF lineNum >= Len(lines) THEN acc
  ELSE StringTerminationLines(lines, lineNum + 1,
         StringTerminationLine(Trim(lines[lineNum + 1]), lineNum + 1, acc))

checkStringTermination(text) ==
  LET r == StringTerminationLines(Split(text, "\n"), 0, NoFindings)
  IN  Verdict(r.errors, r.suggestions)

\* line.match(/.*?->.*?:.*$/): an arrow with a colon somewhere after it
MatchesArrowThenColon(line) ==
  \E i \in 1..Len(line) :
    /\ OccursAt(line, i, S_arrow)
    /\ \E j \in (i + 2)..Len(line) : line[j] = ":"

CommonSyntaxLine(line, lineNo, acc) ==
  IF line = <<>> \/ IsCommentLine(line) THEN acc
  ELSE
    LET a1 == IF /\ Contains(line, S_dashes3)
                 /\ ~Contains(line, S_longArrow)
                 /\ ~Contains(line, S_dashes2)
              THEN AddFinding(acc,
                     <<"Invalid arrow syntax on line ">> \o Digits(lineNo)
                       \o <<": ">> \o line,
                     <<"Use \"-->\" for relationships, not \"---\"">>)
              ELSE acc
        a2 == IF /\ Contains(line, S_arrow)
                 /\ Contains(line, <<":">>)
                 /\ ~MatchesArrowThenColon(line)
              THEN AddFinding(a1,
                     <<"Malformed message syntax on line ">> \o Digits(lineNo)
                       \o <<": ">> \o line,
                     <<"Use format: \"A -> B : message\" for labeled arrows">>)
              ELSE a1
    IN  a2

\* the loop over the lines, each trimmed
RECURSIVE CommonSyntaxLines(_, _, _)
CommonSyntaxLines(lines, lineNum, acc) ==
  IF lineNum >= Len(lines) THEN acc
  ELSE CommonSyntaxLines(lines, lineNum + 1,
         CommonSyntaxLine(Trim(lines[lineNum + 1]), lineNum + 1, acc))

checkCommonSyntaxErrors(text) ==
  LET r == CommonSyntaxLines(Split(text, "\n"), 0, NoFindings)
  IN  Verdict(r.errors, r.suggestions)

\* mutant: every arrow counts as one without spaces around it
MatchesTightArrow_anyArrow(line) ==
  \E i \in 1..Len(line) :
    \E a \in {S_arrow, S_longArrow, S_backArrow, S_longBackArrow} :
      OccursAt(line, i, a)

\* line.match(/\w(->|-->)\w/) || line.match(/\w(<-|<--)\w/)
MatchesTightArrow(line) ==
  \E i \in 1..Len(line) :
    /\ line[i] \in WordChars
    /\ \E a \in {S_arrow, S_longArrow, S_backArrow, S_longBackArrow} :
         /\ OccursAt(line, i + 1, a)
         /\ i + Len(a) + 1 <= Len(line)
         /\ line[i + Len(a) + 1] \in WordChars

\* the body of the loop of checkAdvancedSyntaxErrors; text is the whole
\* document (the class check looks for '}' anywhere in it)
AdvancedSyntaxFindings(text, line, lineNo, acc) ==
  LET a1 == IF CountChar(line, "'") % 2 # 0 /\ ~StartsWith(line, <<"'">>)
            THEN AddFinding(acc,
                   <<"Unmatched single quote on line ">> \o Digits(lineNo)
                     \o <<": ">> \o line,
                   <<"Close all single quotes on line ">> \o Digits(lineNo))
            ELSE acc
      a2 == IF Contains(line, <<"[">>) /\ ~Contains(line, <<"]">>)
            THEN AddFinding(a1,
                   <<"Unclosed component bracket on line ">> \o Digits(lineNo)
                     \o <<": ">> \o line,
                   <<"Close component brackets with ]">>)
            ELSE a1
      a3 == IF /\ Contains(line, <<"(">>)
               /\ Contains(line, S_use)
               /\ ~Contains(line, <<")">>)
            THEN AddFinding(a2,
                   <<"Unclosed use case parenthesis on line ">>
                     \o Digits(lineNo) \o <<": ">> \o line,
                   <<"Close use case parentheses with )">>)
            ELSE a2
      a4 == IF /\ Contains(line, S_class)
               /\ Contains(line, <<"{">>)
               /\ ~Contains(text, <<"}">>)
            THEN AddFinding(a3,
                   <<"Class definition missing closing brace: ">> \o line,
                   <<"Close class definitions with }">>)
            ELSE a3
      a5 == IF /\ (Contains(line, S_participant) \/ Contains(line, S_actor))
               /\ Contains(line, <<"\"">>)
               /\ CountChar(line, "\"") % 2 # 0
            THEN AddFinding(a4,
                   <<"Unclosed quotes in participant/actor definition on line ">>
                     \o Digits(lineNo) \o <<": ">> \o line,
                   <<"Close all quotes in participant/actor names">>)
            ELSE a4
      a6 == IF Contains(line, S_longArrow) /\ Contains(line, S_longBackArrow)
            THEN AddFinding(a5,
                   <<"Invalid bidirectional arrow syntax on line ">>
                     \o Digits(lineNo) \o <<": ">> \o line,
                   <<"Use separate lines for bidirectional relationships">>)
            ELSE a5
      a7 == IF MatchesTightArrow(line)
            THEN AddFinding(a6,
                   <<"Missing spaces around arrows on line ">>
                     \o Digits(lineNo) \o <<": ">> \o line,
                   <<"Add spaces around arrows: \"A -> B\" not \"A->B\"">>)
            ELSE a6
  IN  a7

AdvancedSyntaxLine(text, line, lineNo, acc) ==
  IF line = <<>> \/ IsCommentLine(line) THEN acc
  ELSE AdvancedSyntaxFindings(text, line, lineNo, acc)

\* the loop over the lines, each trimmed
RECURSIVE AdvancedSyntaxLines(_, _, _, _)
AdvancedSyntaxLines(text, lines, lineNum, acc) ==
  IF lineNum >= Len(lines) THEN acc
  ELSE AdvancedSyntaxLines(text, lines, lineNum + 1,
         AdvancedSyntaxLine(text, Trim(lines[lineNum + 1]), lineNum + 1, acc))

checkAdvancedSyntaxErrors(text) ==
  LET r == AdvancedSyntaxLines(text, Split(text, "\n"), 0, NoFindings)
  IN  Verdict(r.errors, r.suggestions)

(***************************************************************************)
(* validateDiagramTypeSpecificSyntax                                       *)
(***************************************************************************)

DiagramTypes ==
  {"component", "deployment", "class", "sequence", "usecase", "activity",
   "state"}

validateDiagramTypeSpecificSyntax(text, diagramType) ==
  LET lowerText == ToLowerCase(text)
      has(lit) == Contains(lowerText, lit)
      one(cond, error, suggestion) ==
        IF cond THEN AddFinding(NoFindings, error, suggestion)
        ELSE NoFindings
      r ==
        CASE diagramType = "component" ->
               one(~has(<<"[">>) \/ ~has(<<"]">>),
                   <<"Component diagram missing [Component] syntax">>,
                   <<"Use [Component Name] syntax for components, e.g., [User Interface], [Database]">>)
          [] diagramType = "class" ->
               one(~has(S_class) \/ ~has(<<"{">>),
                   <<"Class diagram missing proper class syntax">>,
                   <<"Use \"class ClassName { }\" syntax with attributes and methods inside braces">>)
          [] diagramType = "sequence" ->
               Merge(one(~has(S_participant) /\ ~has(S_actor),
                         <<"Sequence diagram missing participants or actors">>,
                         <<"Define participants using \"participant Name\" or \"actor Name\" syntax">>),
                     one(~has(S_arrow) /\ ~has(S_asyncArrow),
                         <<"Sequence diagram missing message arrows">>,
                         <<"Use \"->\" for synchronous or \"->>\" for asynchronous messages">>))
          [] diagramType = "usecase" ->
               Merge(one(~has(S_actor),
                         <<"Use case diagram missing actors">>,
                         <<"Define actors using \"actor ActorName\" syntax">>),
                     one(~has(<<"(">>) \/ ~has(<<")">>),
                         <<"Use case diagram missing use case syntax">>,
                         <<"Define use cases using \"(Use Case Name)\" syntax">>))
          [] diagramType = "activity" ->
               Merge(one(~has(<<":">>) \/ ~has(<<";">>),
                         <<"Activity diagram missing activity syntax">>,
                         <<"Define activities using \":activity name;\" syntax">>),
                     one(~has(S_start) /\ ~has(S_initial),
                         <<"Activity diagram missing start point">>,
                         <<"Add \"start\" or \"[*]\" to indicate the beginning of the activity flow">>))
          [] diagramType = "state" ->
               one(~has(S_state) /\ ~has(S_initial),
                   <<"State diagram missing state syntax">>,
                   <<"Use \"state StateName\" syntax or \"[*]\" for start/end states">>)
          [] diagramType = "deployment" ->
               one(~has(S_node),
                   <<"Deployment diagram missing node syntax">>,
                   <<"Use \"node \\\"Node Name\\\" { }\" syntax for deployment nodes">>)
          [] OTHER -> NoFindings
  IN  Verdict(r.errors, r.suggestions)

(***************************************************************************)
(* validatePlantUMLForAI: the Syntax Validator.  NoType stands for an      *)
(* omitted diagramType argument.                                           *)
(***************************************************************************)

NoType == "undefined"

validatePlantUMLForAI(plantumlText, diagramType) ==
  IF Trim(plantumlText) = <<>>
  THEN [valid |-> FALSE,
        errors |-> << <<"PlantUML text cannot be empty">> >>,
        suggestions |->
          << <<"Generate a complete PlantUML diagram starting with ">>
               \o S_startuml \o <<" and ending with ">> \o S_enduml >>]
  ELSE
    LET hasStart == Contains(plantumlText, S_startuml)
        hasEnd == Contains(plantumlText, S_enduml)
        r1 == IF ~hasStart
              THEN AddFinding(NoFindings,
                     <<"Missing ">> \o S_startuml \o <<" directive">>,
                     <<"Start your PlantUML code with ">> \o S_startuml)
              ELSE NoFindings
        r2 == IF ~hasEnd
              THEN AddFinding(r1,
                     <<"Missing ">> \o S_enduml \o <<" directive">>,
                     <<"End your PlantUML code with ">> \o S_enduml)
              ELSE r1
        r3 == IF /\ hasStart
                 /\ hasEnd
                 /\ IndexOf(plantumlText, S_startuml)
                      >= IndexOf(plantumlText, S_enduml)
              THEN AddFinding(r2,
                     S_startuml \o <<" must come before ">> \o S_enduml,
                     <<"Place ">> \o S_startuml
                       \o <<" at the beginning and ">> \o S_enduml
                       \o <<" at the end">>)
              ELSE r2
        \* each sub-check is merged only when it is not valid; a valid
        \* sub-check has no findings, so the merge is the same
        r4 == Merge(r3, checkBalancedBrackets(plantumlText))
        r5 == Merge(r4, checkStringTermination(plantumlText))
        r6 == Merge(r5, checkCommonSyntaxErrors(plantumlText))
        r7 == Merge(r6, checkAdvancedSyntaxErrors(plantumlText))
        r8 == IF diagramType # NoType
              THEN Merge(r7,
                     validateDiagramTypeSpecificSyntax(plantumlText,
                                                       diagramType))
              ELSE r7
    IN  Verdict(r8.errors, r8.suggestions)

(***************************************************************************)
(* renderPlantUMLWeb and validatePlantUMLByRendering: the Render Validator *)
(***************************************************************************)

S_400 == <<"4", "0", "0">>

S_syntax == <<"s", "y", "n", "t", "a", "x">>

S_Syntax == <<"S", "y", "n", "t", "a", "x">>

S_timeout == <<"t", "i", "m", "e", "o", "u", "t">>

S_Timeout == <<"T", "i", "m", "e", "o", "u", "t">>

P_renderingFailed == <<"PlantUML rendering failed">>

\* what the rendering service does with one request: the encoder throws
\* ("encode"), the fetch rejects ("network"), or the service answers with
\* an HTTP status
FetchOutcomes ==
  {[kind |-> "encode", status |-> 0], [kind |-> "network", status |-> 0]}
    \cup {[kind |-> "status", status |-> st] : st \in {200, 400, 500, 504}}

\* mutant: every answer of the service counts as a success
ResponseOk_always(status) == TRUE

\* Response.ok
ResponseOk(status) == status \in 200..299

\* renderPlantUMLWeb(text, 'svg'): resolves (ok) or rejects with a
\* PlantUMLError
renderPlantUMLWeb(fetch) ==
  CASE fetch.kind = "encode" ->
         [ok |-> FALSE, message |-> <<"Failed to encode PlantUML text">>,
          code |-> "ENCODE_ERROR"]
    [] fetch.kind = "network" ->
         [ok |-> FALSE, message |-> <<"Failed to render PlantUML diagram">>,
          code |-> "NETWORK_ERROR"]
    [] fetch.kind = "body" /\ ResponseOk(fetch.status) ->
         [ok |-> FALSE, message |-> <<"Failed to render PlantUML diagram">>,
          code |-> "NETWORK_ERROR"]
    [] fetch.kind = "status" /\ ~ResponseOk(fetch.status) ->
         [ok |-> FALSE,
          message |-> <<"Failed to render diagram: ">> \o Digits(fetch.status),
          code |-> "RENDER_ERROR"]
    [] OTHER -> [ok |-> TRUE, message |-> <<>>, code |-> ""]

validatePlantUMLByRendering(fetch) ==
  LET r == renderPlantUMLWeb(fetch)
      errorMessage == r.message
      a1 == IF Contains(errorMessage, S_400)
            THEN AddFinding(NoFindings,
                   <<"PlantUML server rejected the diagram syntax">>,
                   <<"Check for syntax errors, invalid keywords, or malformed diagram structure">>)
            ELSE NoFindings
      a2 == IF Contains(errorMessage, S_syntax)
                 \/ Contains(errorMessage, S_Syntax)
            THEN AddFinding(a1,
                   <<"Syntax error in PlantUML code">>,
                   <<"Review PlantUML syntax documentation for the specific diagram type">>)
            ELSE a1
      a3 == IF Contains(errorMessage, S_timeout)
                 \/ Contains(errorMessage, S_Timeout)
            THEN AddFinding(a2,
                   <<"PlantUML rendering timeout - diagram too complex">>,
                   <<"Simplify the diagram by reducing the number of elements or relationships">>)
            ELSE a2
      a4 == IF a3.errors = <<>>
            THEN AddFinding(a3,
                   P_renderingFailed \o <<": ">> \o errorMessage,
                   <<"Review the entire PlantUML code for syntax errors or invalid constructs">>)
            ELSE a3
  IN  IF r.ok
      THEN [valid |-> TRUE, errors |-> <<>>, suggestions |-> <<>>]
      ELSE [valid |-> FALSE, errors |-> a4.errors,
            suggestions |-> a4.suggestions]

(***************************************************************************)
(* lib/ai-providers.ts: constants, errors and prompt builders              *)
(***************************************************************************)

MAX_RETRIES == 2

\* null and non-null references
None == <<>>

Some(x) == <<x>>

\* the AIError class of lib/types.ts and the built-in Error
AIError(message) == [name |-> "AIError", message |-> message]

PlainError(message) == [name |-> "Error", message |-> message]

\* the diagram kind as the characters of its name
TypeName(diagramType) ==
  CASE diagramType = "component" ->
         <<"c", "o", "m", "p", "o", "n", "e", "n", "t">>
    [] diagramType = "deployment" ->
         <<"d", "e", "p", "l", "o", "y", "m", "e", "n", "t">>
    [] diagramType = "class" -> <<"c", "l", "a", "s", "s">>
    [] diagramType = "sequence" ->
         <<"s", "e", "q", "u", "e", "n", "c", "e">>
    [] diagramType = "usecase" -> <<"u", "s", "e", "c", "a", "s", "e">>
    [] diagramType = "activity" ->
         <<"a", "c", "t", "i", "v", "i", "t", "y">>
    [] diagramType = "state" -> <<"s", "t", "a", "t", "e">>

\* the fixed block of rules and the worked example of one kind
getDiagramTypeSpecificInstructions(diagramType) ==
  CASE diagramType = "component" -> <<"COMPONENT DIAGRAM REQUIREMENTS: ...">>
    [] diagramType = "deployment" -> <<"DEPLOYMENT DIAGRAM REQUIREMENTS: ...">>
    [] diagramType = "class" -> <<"CLASS DIAGRAM REQUIREMENTS: ...">>
    [] diagramType = "sequence" -> <<"SEQUENCE DIAGRAM REQUIREMENTS: ...">>
    [] diagramType = "usecase" -> <<"USE CASE DIAGRAM REQUIREMENTS: ...">>
    [] diagramType = "activity" -> <<"ACTIVITY DIAGRAM REQUIREMENTS: ...">>
    [] diagramType = "state" -> <<"STATE DIAGRAM REQUIREMENTS: ...">>
    [] OTHER ->
         <<"Create a proper ">> \o <<diagramType>>
           \o <<" diagram following PlantUML conventions and best practices.">>

\* mutant: only the first item is listed
NumberedList_first(items, mark) ==
  IF items = <<>> THEN <<>>
  ELSE Digits(1) \o <<". ", mark, " ">> \o items[1]

\* items.map((x, index) => `${index + 1}. <mark> ${x}`).join('\n'); the
\* cross and check marks of the source are written "x" and "v"
NumberedList(items, mark) ==
  Join([i \in 1..Len(items) |-> Digits(i) \o <<". ", mark, " ">> \o items[i]],
       <<"\n">>)

\* items.map(x => `<bullet> ${x}`).join('\n'); the bullet is written "* "
BulletList(items) ==
  Join([i \in 1..Len(items) |-> <<"* ">> \o items[i]], <<"\n">>)

\* the retry-context block of createGeneratePrompt
GenerateRetryContext(diagramType, attempt, lastError, lastValidationResult) ==
  IF attempt > 1 /\ (lastError # None \/ lastValidationResult # None)
  THEN
    <<"\n\nAUTOMATIC RETRY - ATTEMPT ">> \o Digits(attempt) \o <<"/">>
      \o Digits(MAX_RETRIES)
      \o (IF /\ lastValidationResult # None
             /\ Len(lastValidationResult[1].errors) > 0
          THEN <<"\n\nYOUR PREVIOUS PlantUML CODE HAD THESE VALIDATION ERRORS:\n">>
                 \o NumberedList(lastValidationResult[1].errors, "x")
                 \o <<"\n\nTO FIX THESE ERRORS, YOU MUST:\n">>
                 \o NumberedList(lastValidationResult[1].suggestions, "v")
                 \o <<"\n\nCRITICAL: You MUST address every single error listed above in your new attempt.">>
          ELSE <<>>)
      \o (IF lastError # None
          THEN <<"\n\nPrevious generation error: ">> \o lastError[1].message
          ELSE <<>>)
      \o <<"\n\nRETRY INSTRUCTIONS - FOLLOW EXACTLY: ... 4. SYNTAX: Use proper ">>
      \o TypeName(diagramType)
      \o <<" diagram syntax only ... SUCCESS CRITERIA: Your PlantUML must pass validation on this attempt!">>
  ELSE <<>>

createGeneratePrompt(desc, requested, n, err, verdict) ==
  <<"You are an expert software architect and PlantUML specialist. ...\n\nDescription: ">>
    \o desc
    \o <<" \nCreate a comprehensive markdown description with headings, bullet points, bold, italic etc where appropriate.">>
    \o GenerateRetryContext(requested, n, err, verdict)
    \o <<"\n\nCRITICAL INSTRUCTIONS:\n1. You MUST create a ">>
    \o ToUpperCase(TypeName(requested))
    \o <<" diagram - not any other type!\n2. Use ONLY the syntax specific to ">>
    \o TypeName(requested)
    \o <<" diagrams as specified below\n3. Follow PlantUML ">>
    \o TypeName(requested)
    \o <<" diagram conventions exactly ...\n\n">>
    \o getDiagramTypeSpecificInstructions(requested)
    \o <<"\n\nGENERAL SYNTAX REQUIREMENTS: ... DESIGN REQUIREMENTS: ...\n\nRemember: You are creating a ">>
    \o ToUpperCase(TypeName(requested))
    \o <<" diagram. Use the specific syntax and conventions for ">>
    \o TypeName(requested) \o <<" diagrams only!">>

\* the retry-context block of createEditPrompt
EditRetryContext(attempt, lastError, lastValidationResult) ==
  IF attempt > 1 /\ (lastError # None \/ lastValidationResult # None)
  THEN
    <<"\n\nAUTOMATIC EDIT RETRY - ATTEMPT ">> \o Digits(attempt) \o <<"/">>
      \o Digits(MAX_RETRIES)
      \o (IF /\ lastValidationResult # None
             /\ Len(lastValidationResult[1].errors) > 0
          THEN <<"\n\nYOUR PREVIOUS EDITED PlantUML CODE HAD THESE VALIDATION ERRORS:\n">>
                 \o NumberedList(lastValidationResult[1].errors, "x")
                 \o <<"\n\nTO FIX THESE EDIT ERRORS, YOU MUST:\n">>
                 \o NumberedList(lastValidationResult[1].suggestions, "v")
                 \o <<"\n\nCRITICAL: You MUST address every single error listed above in your edited code.">>
          ELSE <<>>)
      \o (IF lastError # None
          THEN <<"\n\nPrevious edit error: ">> \o lastError[1].message
          ELSE <<>>)
      \o <<"\n\nEDIT RETRY INSTRUCTIONS - FOLLOW EXACTLY: ... EDIT SUCCESS CRITERIA: Your edited PlantUML must pass validation on this attempt!">>
  ELSE <<>>

createEditPrompt(existing, instructions, n, err, verdict) ==
  <<"You are an expert software architect. Modify the following PlantUML diagram based on the edit instructions.\n\nCurrent PlantUML code:\n">>
    \o existing
    \o <<"\n\nEdit instructions: ">>
    \o instructions
    \o EditRetryContext(n, err, verdict)
    \o <<"\n\nInstructions: ...\n\nEnsure the modified PlantUML code is syntactically correct and follows PlantUML conventions.">>

(***************************************************************************)
(* generateDiagram / editDiagram: the pieces of the retry loop             *)
(***************************************************************************)

P_invalidPlantUML == <<"Invalid PlantUML">>

P_validationFailed == <<"PlantUML validation failed">>

P_syntaxValidationFailed == <<"PlantUML syntax validation failed">>

P_renderValidationFailed == <<"PlantUML render validation failed">>

\* 'Google Generative AI API key is missing'; the routes search error
\* messages for 'API key'
MissingKeyError ==
  AIError(<<"Google Generative AI ", "API key", " is missing">>)

\* for (...; attempt <= MAX_RETRIES; ...)
LoopContinues(n) == n <= MAX_RETRIES

\* mutant: the loop variable is not advanced
NextAttempt_stuck(n) == n

\* for (...; ...; attempt++)
NextAttempt(n) == n + 1

\* the argument the Syntax Validator gets: generateDiagram passes the
\* requested kind, editDiagram passes none
SyntaxKind(op, requested) == IF op = "generate" THEN requested ELSE NoType

\* mutant: the syntax verdict is ignored
SyntaxRejects_never(syntaxValidation) == FALSE

\* if (!syntaxValidation.valid): the syntax gate
SyntaxRejects(syntaxValidation) == ~syntaxValidation.valid

\* mutant: the render verdict is ignored
RenderRejects_never(renderValidation) == FALSE

\* mutant: the render gate is inverted
RenderRejects_inverted(renderValidation) == renderValidation.valid

\* if (!renderValidation.valid): the render gate
RenderRejects(renderValidation) == ~renderValidation.valid

\* new Error(`PlantUML syntax validation failed: ${errors.join(', ')}`)
SyntaxFailure(syntaxValidation) ==
  PlainError(P_syntaxValidationFailed \o <<": ">>
               \o Join(syntaxValidation.errors, <<",", " ">>))

\* new Error(`PlantUML render validation failed: ${errors.join(', ')}`)
RenderFailure(renderValidation) ==
  PlainError(P_renderValidationFailed \o <<": ">>
               \o Join(renderValidation.errors, <<",", " ">>))

\* the verdict recorded after a render failure
RenderFeedback(renderValidation) ==
  [errors |-> renderValidation.errors,
   suggestions |->
     renderValidation.suggestions
       \o << <<"The syntax validation passed, but rendering failed - check for PlantUML server compatibility">>,
             <<"Ensure all diagram elements are properly formatted for the PlantUML server">> >>]

\* mutant: the verdict recorded is not the one of the candidate
SyntaxFeedback_blank(syntaxValidation) ==
  [errors |-> <<>>, suggestions |-> <<>>]

\* the verdict recorded after a syntax failure (the validator's own object)
SyntaxFeedback(syntaxValidation) ==
  [errors |-> syntaxValidation.errors,
   suggestions |-> syntaxValidation.suggestions]

\* mutant: the requested kind always wins
ReturnedKind_requested(responseDiagramType, requested) == requested

\* responseDiagramType || diagramType
ReturnedKind(responseDiagramType, requested) ==
  IF responseDiagramType # "" THEN responseDiagramType ELSE requested

\* mutant: the instanceof test is negated
IsNonRetriable_negated(op, error) == error.name # "AIError"

\* the test of the catch block for an error that is thrown on as it is
IsNonRetriable(op, error) ==
  /\ error.name = "AIError"
  /\ IF op = "generate"
     THEN /\ ~Contains(error.message, P_invalidPlantUML)
          /\ ~Contains(error.message, P_renderingFailed)
          /\ ~Contains(error.message, P_validationFailed)
          /\ ~Contains(error.message, P_syntaxValidationFailed)
          /\ ~Contains(error.message, P_renderValidationFailed)
     ELSE /\ ~Contains(error.message, P_validationFailed)
          /\ ~Contains(error.message, P_syntaxValidationFailed)
          /\ ~Contains(error.message, P_renderValidationFailed)

\* mutant: the last attempt is not recognised
IsLastAttempt_late(n) == n > MAX_RETRIES

\* if (attempt === MAX_RETRIES)
IsLastAttempt(n) == n = MAX_RETRIES

\* mutant: the retry follows at once
ShouldDelay_never(n) == FALSE

\* if (attempt < MAX_RETRIES), the guard of the delay
ShouldDelay(n) == n < MAX_RETRIES

\* Math.min(1000 * attempt, 3000)
BackoffDelay(n) == IF 1000 * n < 3000 THEN 1000 * n ELSE 3000

\* mutant: the last diagram text is left out of the message
ExhaustionMessage_noText(op, validationResult, plantUMLAttempt) ==
  (IF op = "generate"
   THEN <<"Failed to generate valid PlantUML ">>
   ELSE <<"Failed to edit PlantUML ">>)
    \o <<"after ">> \o Digits(MAX_RETRIES) \o <<" attempts">> \o <<".">>
    \o (IF validationResult # None
        THEN <<"\n\nFinal validation errors:\n">>
               \o BulletList(validationResult[1].errors)
               \o <<"\n\nSuggested fixes:\n">>
               \o BulletList(validationResult[1].suggestions)
        ELSE <<>>)

\* mutant: the suggestions are left out of the message
ExhaustionMessage_noFixes(op, validationResult, plantUMLAttempt) ==
  (IF op = "generate"
   THEN <<"Failed to generate valid PlantUML ">>
   ELSE <<"Failed to edit PlantUML ">>)
    \o <<"after ">> \o Digits(MAX_RETRIES) \o <<" attempts">> \o <<".">>
    \o (IF validationResult # None
        THEN <<"\n\nFinal validation errors:\n">>
               \o BulletList(validationResult[1].errors)
        ELSE <<>>)
    \o (IF plantUMLAttempt # <<>>
        THEN <<"\n\nLast PlantUML attempt:\n">> \o plantUMLAttempt
        ELSE <<>>)

\* the message of the error thrown when the last attempt has failed
ExhaustionMessage(op, validationResult, plantUMLAttempt) ==
  (IF op = "generate"
   THEN <<"Failed to generate valid PlantUML ">>
   ELSE <<"Failed to edit PlantUML ">>)
    \o <<"after ">> \o Digits(MAX_RETRIES) \o <<" attempts">> \o <<".">>
    \o (IF validationResult # None
        THEN <<"\n\nFinal validation errors:\n">>
               \o BulletList(validationResult[1].errors)
               \o <<"\n\nSuggested fixes:\n">>
               \o BulletList(validationResult[1].suggestions)
        ELSE <<>>)
    \o (IF plantUMLAttempt # <<>>
        THEN <<"\n\nLast PlantUML attempt:\n">> \o plantUMLAttempt
        ELSE <<>>)

\* the throw after the loop
UnexpectedError(op) ==
  AIError(IF op = "generate"
          THEN <<"Unexpected error in retry loop">>
          ELSE <<"Unexpected error in edit retry loop">>)

\* the prompt of one attempt
BuildPrompt(op, desc, requested, existing, instructions, n, err, verdict) ==
  IF op = "generate"
  THEN createGeneratePrompt(desc, requested, n, err, verdict)
  ELSE createEditPrompt(existing, instructions, n, err, verdict)

(***************************************************************************)
(* lib/cache.ts: MemoryCache and the cache keys.  The Map is a sequence of *)
(* entries in insertion order: Map.set of a key already present replaces   *)
(* the value in place, Map.delete removes the entry, and keys() begins      *)
(* with the entry inserted first.                                           *)
(***************************************************************************)

\* String.prototype.charCodeAt for the characters of the requests
CharCode(c) ==
  IF c \in SeqRange(LowerLetters)
  THEN 96 + (CHOOSE i \in 1..26 : LowerLetters[i] = c)
  ELSE IF c \in SeqRange(UpperLetters)
  THEN 64 + (CHOOSE i \in 1..26 : UpperLetters[i] = c)
  ELSE CASE c = " " -> 32
         [] c = "-" -> 45
         [] c = "\n" -> 10
         [] c = "\t" -> 9

\* A 32-bit integer is kept as its two 16-bit halves, hi and lo, in two's
\* complement: the arithmetic of the hash wraps at 32 bits.
Half == 65536

\* hash = ((hash << 5) - hash) + char; hash = hash & hash
\* (31 * hash + char, converted to a 32-bit integer)
HashStep(hash, char) ==
  LET lo == 31 * hash.lo + char
      hi == 31 * hash.hi + (lo \div Half)
  IN  [hi |-> hi % Half, lo |-> lo % Half]

RECURSIVE HashFrom(_, _, _)
HashFrom(input, i, hash) ==
  IF i > Len(input) THEN hash
  ELSE HashFrom(input, i + 1, HashStep(hash, CharCode(input[i])))

\* Math.abs of a 32-bit integer: the magnitude, at most 2^31
Abs(hash) ==
  IF hash.hi < Half \div 2 THEN hash
  ELSE [hi |-> (Half - 1 - hash.hi + (IF hash.lo = 0 THEN 1 ELSE 0)) % Half,
        lo |-> (Half - hash.lo) % Half]

Base36Digit(d) ==
  IF d < 10 THEN DigitChar(d) ELSE LowerLetters[d - 9]

\* Number.prototype.toString(36) of a non-negative integer
RECURSIVE ToString36(_)
ToString36(n) ==
  LET rest == (n.hi % 36) * Half + n.lo
      quotient == [hi |-> n.hi \div 36, lo |-> rest \div 36]
  IN  IF n.hi = 0 /\ n.lo < 36 THEN <<Base36Digit(n.lo)>>
      ELSE ToString36(quotient) \o <<Base36Digit(rest % 36)>>

createDiagramCacheKey(desc, kind) ==
  ToString36(Abs(HashFrom(ToLowerCase(Trim(desc)) \o <<"-">> \o TypeName(kind),
                          1, [hi |-> 0, lo |-> 0])))

\* Date.now() - entry.timestamp > entry.ttl
\* mutant: no entry ever expires
Expired_never(entry, time) == FALSE

\* Date.now() - entry.timestamp > entry.ttl
Expired(entry, time) == time - entry.timestamp > entry.ttl

\* the position of a key in the Map, 0 when it is absent
RECURSIVE Position(_, _, _)
Position(c, key, i) ==
  IF i > Len(c) THEN 0
  ELSE IF c[i].key = key THEN i
  ELSE Position(c, key, i + 1)

\* Map.prototype.delete
RECURSIVE MapDelete(_, _)
MapDelete(c, key) ==
  IF c = <<>> THEN <<>>
  ELSE IF c[1].key = key THEN Tail(c)
  ELSE <<c[1]>> \o MapDelete(Tail(c), key)

\* Map.prototype.set
MapSet(c, entry) ==
  IF Position(c, entry.key, 1) = 0 THEN Append(c, entry)
  ELSE [c EXCEPT ![Position(c, entry.key, 1)] = entry]

\* MemoryCache.cleanup: the expired entries are deleted
RECURSIVE cleanup(_, _)
cleanup(c, time) ==
  IF c = <<>> THEN <<>>
  ELSE IF Expired(c[1], time) THEN cleanup(Tail(c), time)
  ELSE <<c[1]>> \o cleanup(Tail(c), time)

\* mutant: the entry inserted last is the one removed
Evict_last(c) ==
  IF c = <<>> THEN c
  ELSE SubSeq(c, 1, Len(c) - 1)

\* const firstKey = this.cache.keys().next().value;
\* if (firstKey) this.cache.delete(firstKey): an empty key is falsy
Evict(c) ==
  IF c = <<>> THEN c
  ELSE IF c[1].key # <<>> THEN MapDelete(c, c[1].key)
  ELSE c

\* MemoryCache.set: the Map after the call
set(c, max, key, data, ttlMs, time) ==
  LET c1 == cleanup(c, time)
      c2 == IF Len(c1) >= max THEN Evict(c1) ELSE c1
  IN  MapSet(c2, [key |-> key, data |-> data, timestamp |-> time,
                  ttl |-> ttlMs])

\* MemoryCache.get: the Map after the call and the value returned
get(c, key, time) ==
  LET i == Position(c, key, 1)
  IN  IF i = 0 THEN [cache |-> c, data |-> None]
      ELSE IF Expired(c[i], time)
      THEN [cache |-> MapDelete(c, key), data |-> None]
      ELSE [cache |-> c, data |-> Some(c[i].data)]

\* MemoryCache.size: the Map after the call and the number returned
size(c, time) == [cache |-> cleanup(c, time), size |-> Len(cleanup(c, time))]

\* new MemoryCache(50), the diagramCache
DiagramCacheSize == 50

\* 24 * 60 * 60 * 1000, the ttl of a cached generation
DiagramTtl == 24 * 60 * 60 * 1000

\* set(key, data, ttlMs = 5 * 60 * 1000)
DefaultTtl == 5 * 60 * 1000

(***************************************************************************)
(* Inputs of the model: requests, replies of the generative model          *)
(***************************************************************************)

NL == <<"\n">>

\* @startuml\n[A] --> [B]\n@enduml
T_component ==
  S_startuml \o NL \o <<"[", "A", "]", " ">> \o S_longArrow
    \o <<" ", "[", "B", "]">> \o NL \o S_enduml

\* @startuml\n[A --> [B]\n@enduml
T_unclosed ==
  S_startuml \o NL \o <<"[", "A", " ">> \o S_longArrow
    \o <<" ", "[", "B", "]">> \o NL \o S_enduml

\* @startuml\nclass A {\n}\n@enduml
T_class ==
  S_startuml \o NL \o S_class \o <<"A", " ", "{">> \o NL \o <<"}">> \o NL
    \o S_enduml

\* [A] "B
T_bare == <<"[", "A", "]", " ", "\"", "B">>

\* @enduml\n(A)\n@startuml
T_reversed == S_enduml \o NL \o <<"(", "A", ")">> \o NL \o S_startuml

\* the diagram texts the generative model may reply with, the first
\* NumTexts of them
SampleTexts == <<T_component, T_unclosed, <<>>, T_class, T_bare, T_reversed>>

NumTexts == 4

ReplyTexts ==
  {SampleTexts[i] : i \in 1..(IF NumTexts < Len(SampleTexts)
                              THEN NumTexts ELSE Len(SampleTexts))}

\* result.object of a generateObject call that resolved; the schema makes
\* diagramType one of the enumerated kinds
GenerateReplies ==
  {[description |-> <<"## Architecture ...">>, plantuml |-> t,
    diagramType |-> k, changes |-> <<>>] :
     t \in ReplyTexts, k \in DiagramTypes}

EditReplies ==
  {[description |-> <<>>, plantuml |-> t, diagramType |-> "",
    changes |-> <<"Added the requested element">>] : t \in ReplyTexts}

Replies(op) == IF op = "generate" THEN GenerateReplies ELSE EditReplies

\* the errors a generateObject call rejects with (errors of the AI SDK,
\* never instances of this repository's AIError)
ModelErrors ==
  {PlainError(<<"fetch failed">>),
   PlainError(<<"No object generated: response did not match schema.">>)}

Descriptions == {<<"S", "h", "o", "p">>}

EditInstructions == {<<"a", "d", "d", " ", "B">>}

(***************************************************************************)
(* One call of generateDiagram or editDiagram as a state machine.  The     *)
(* call is suspended at its three awaits: the model call (pc = "model"),   *)
(* the render validation (pc = "render") and the backoff (pc = "delay").   *)
(***************************************************************************)

VARIABLES
  operation,             \* "generate" or "edit"
  description,           \* argument of generateDiagram
  diagramType,           \* argument of generateDiagram (the requested kind)
  existingPlantUML,      \* argument of editDiagram
  editInstructions,      \* argument of editDiagram
  apiKey,                \* process.env.GOOGLE_GENERATIVE_AI_API_KEY is set
  pc,                    \* "loop", "model", "render", "delay", "returned", "thrown"
  attempt,               \* the loop variable
  lastError,             \* Error | null
  lastValidationResult,  \* { errors, suggestions } | null
  lastPlantUMLAttempt,   \* string
  candidate,             \* result.object of the attempt under validation
  result,                \* the value the call returned, if it returned
  thrown,                \* the error the call threw, if it threw
  modelCalls,            \* number of generateObject calls made
  renderCalls,           \* number of validatePlantUMLByRendering calls made
  delays,                \* the backoff delays started, in order (ms)
  log                    \* per model call: prompt, reply or error, verdicts

orchVars ==
  <<operation, description, diagramType, existingPlantUML, editInstructions,
    apiKey, pc, attempt, lastError, lastValidationResult,
    lastPlantUMLAttempt, candidate, result, thrown, modelCalls, renderCalls,
    delays, log>>

inputs ==
  <<operation, description, diagramType, existingPlantUML, editInstructions,
    apiKey>>

\* The other parts of the program have their own state: a call of the
\* syntax validator on its own, a route handler of the HTTP layer, and a
\* MemoryCache, and a second call of the orchestrator that is in progress
\* at the same time.  Each specification below starts the parts it does not
\* exercise at rest, and no action of the orchestrator touches them.
VARIABLES
  valText,               \* argument plantumlText of validatePlantUMLForAI
  valType,               \* argument diagramType, NoType when omitted
  valVerdict,            \* the ValidationResult returned, once it returned
  route,                 \* the route whose POST handler runs, or "none"
  body,                  \* the request body sent to it
  rpc,                   \* "idle", "awaiting" (the orchestrator), "responded"
  response,              \* the NextResponse returned: status and JSON body
  cacheKey,              \* const cacheKey of the generate route
  cachedResult,          \* const cachedResult of the generate route
  requests,              \* number of requests received so far
  cache,                 \* MemoryCache.cache: the Map, in insertion order
  maxSize,               \* MemoryCache.maxSize
  now,                   \* Date.now()
  recency,               \* the keys by their latest use, oldest first
  lastCall,              \* the latest call made on the cache
  other,                 \* the locals of the other call in progress
  current                \* which of the two calls the locals above belong to

valVars == <<valText, valType, valVerdict>>

httpVars == <<route, body, rpc, response, cacheKey, cachedResult, requests>>

cacheVars == <<cache, maxSize, now, recency, lastCall>>

concVars == <<other, current>>

\* The rendering service as the render route and the Render Validator see
\* it.
VARIABLES
  fetched,               \* what the rendering service did with the request
  renderVerdict          \* what validatePlantUMLByRendering returned

renderVars == <<fetched, renderVerdict>>

\* What a client of a MemoryCache knows of its own calls.
VARIABLES
  lastSet,               \* per key: the data, time and ttl of its latest set()
  gone,                  \* per key: a get() returned null since that set()
  returned               \* the key and the value of the get() just made

ttlVars == <<lastSet, gone, returned>>

\* who stored each entry of the diagram cache: a record of the arguments of
\* the orchestrator call whose result the route stored, kept beside the cache
VARIABLES storedFor

originVars == <<storedFor>>

\* the useDiagram hook: its React state, the requests it has sent that are
\* not settled yet, and the number of calls made on it
VARIABLES hook, inflight, hookCalls

hookVars == <<hook, inflight, hookCalls>>

extraVars == <<renderVars, ttlVars, originVars, hookVars>>

outside == <<valVars, httpVars, cacheVars, concVars, extraVars>>

vars == <<orchVars, outside>>

\* no call of generateDiagram or editDiagram has been made
OrchestratorAtRest ==
  /\ operation = "none"
  /\ description = <<>>
  /\ diagramType = NoType
  /\ existingPlantUML = <<>>
  /\ editInstructions = <<>>
  /\ pc = "idle"
  /\ attempt = 0
  /\ lastError = None
  /\ lastValidationResult = None
  /\ lastPlantUMLAttempt = <<>>
  /\ candidate = [description |-> <<>>, plantuml |-> <<>>,
                  diagramType |-> "", changes |-> <<>>]
  /\ result = None
  /\ thrown = None
  /\ modelCalls = 0
  /\ renderCalls = 0
  /\ delays = <<>>
  /\ log = <<>>

ValidatorAtRest ==
  /\ valText = <<>>
  /\ valType = NoType
  /\ valVerdict = None

\* no request is being handled
HttpAtRest ==
  /\ route = "none"
  /\ body = <<>>
  /\ rpc = "idle"
  /\ response = None
  /\ cacheKey = None
  /\ cachedResult = None
  /\ requests = 0

\* an empty cache that is not used
CacheAtRest ==
  /\ cache = <<>>
  /\ maxSize = 0
  /\ now = 0
  /\ recency = <<>>
  /\ lastCall = <<"new">>

\* there is no second call
ConcAtRest ==
  /\ other = <<>>
  /\ current = 1

\* the rendering service has not been asked
RenderAtRest == fetched = <<>> /\ renderVerdict = <<>>

\* no call has been made on a MemoryCache
TtlAtRest == lastSet = <<>> /\ gone = <<>> /\ returned = <<>>

\* nothing has been stored in the diagram cache
OriginAtRest == storedFor = <<>>

\* useState's initial value, and no call made
HookAtRest ==
  /\ hook = [isGenerating |-> FALSE, isEditing |-> FALSE,
             isRendering |-> FALSE, data |-> <<>>, error |-> <<>>,
             history |-> <<>>]
  /\ inflight = {}
  /\ hookCalls = 0

ExtraAtRest == RenderAtRest /\ TtlAtRest /\ OriginAtRest /\ HookAtRest

OutsideAtRest ==
  ValidatorAtRest /\ HttpAtRest /\ CacheAtRest /\ ConcAtRest /\ ExtraAtRest

NoCandidate ==
  [description |-> <<>>, plantuml |-> <<>>, diagramType |-> "",
   changes |-> <<>>]

Init ==
  /\ operation \in {"generate", "edit"}
  /\ apiKey \in BOOLEAN
  /\ IF operation = "generate"
     THEN /\ description \in Descriptions
          /\ diagramType \in DiagramTypes
          /\ existingPlantUML = <<>>
          /\ editInstructions = <<>>
     ELSE /\ description = <<>>
          /\ diagramType = NoType
          /\ existingPlantUML \in {T_component}
          /\ editInstructions \in EditInstructions
  /\ pc = "loop"
  /\ attempt = 1
  /\ lastError = None
  /\ lastValidationResult = None
  /\ lastPlantUMLAttempt = <<>>
  /\ candidate = NoCandidate
  /\ result = None
  /\ thrown = None
  /\ modelCalls = 0
  /\ renderCalls = 0
  /\ delays = <<>>
  /\ log = <<>>
  /\ OutsideAtRest

\* attempt++ and the loop test; the throw after the loop when it fails
NextIteration ==
  /\ attempt' = NextAttempt(attempt)
  /\ IF LoopContinues(NextAttempt(attempt))
     THEN pc' = "loop" /\ UNCHANGED thrown
     ELSE pc' = "thrown" /\ thrown' = Some(UnexpectedError(operation))

\* the catch block, entered with the thrown error and with the values
\* lastValidationResult and lastPlantUMLAttempt have at the throw
Catch(error, validationResult, plantUMLAttempt) ==
  /\ lastError' = Some(error)
  /\ IF IsNonRetriable(operation, error)
     THEN /\ pc' = "thrown"
          /\ thrown' = Some(error)
          /\ UNCHANGED <<attempt, delays>>
     ELSE IF IsLastAttempt(attempt)
     THEN /\ pc' = "thrown"
          /\ thrown' = Some(AIError(ExhaustionMessage(operation,
                                      validationResult, plantUMLAttempt)))
          /\ UNCHANGED <<attempt, delays>>
     ELSE IF ShouldDelay(attempt)
     THEN /\ pc' = "delay"
          /\ delays' = Append(delays, BackoffDelay(attempt))
          /\ UNCHANGED <<attempt, thrown>>
     ELSE /\ NextIteration
          /\ UNCHANGED delays

\* the start of the loop body up to the await of generateObject
StartAttempt ==
  /\ pc = "loop"
  /\ IF ~apiKey
     THEN /\ Catch(MissingKeyError, lastValidationResult, lastPlantUMLAttempt)
          /\ UNCHANGED <<modelCalls, log>>
     ELSE /\ pc' = "model"
          /\ modelCalls' = modelCalls + 1
          /\ log' = Append(log,
               [attempt |-> attempt,
                prompt |-> BuildPrompt(operation, description, diagramType,
                             existingPlantUML, editInstructions, attempt,
                             lastError, lastValidationResult),
                reply |-> None, modelError |-> None, syntax |-> None,
                render |-> None])
          /\ UNCHANGED <<attempt, lastError, thrown, delays>>
  /\ UNCHANGED outside
  /\ UNCHANGED <<inputs, lastValidationResult, lastPlantUMLAttempt,
                 candidate, result, renderCalls>>

\* generateObject resolves with a reply: syntax validation, then either
\* the catch block or the await of the render validation
ModelReply(reply) ==
  /\ pc = "model"
  /\ \E plantuml \in {reply.plantuml} :
     \E syntaxValidation \in
          {validatePlantUMLForAI(plantuml, SyntaxKind(operation, diagramType))} :
         /\ lastPlantUMLAttempt' = plantuml
         /\ log' = [log EXCEPT ![Len(log)].reply = Some(reply),
                               ![Len(log)].syntax = Some(syntaxValidation)]
         /\ IF SyntaxRejects(syntaxValidation)
            THEN /\ lastValidationResult' =
                      Some(SyntaxFeedback(syntaxValidation))
                 /\ Catch(SyntaxFailure(syntaxValidation),
                          lastValidationResult', lastPlantUMLAttempt')
                 /\ UNCHANGED <<candidate, renderCalls>>
            ELSE /\ pc' = "render"
                 /\ candidate' = reply
                 /\ renderCalls' = renderCalls + 1
                 /\ UNCHANGED <<attempt, lastError, lastValidationResult,
                                thrown, delays>>
  /\ UNCHANGED outside
  /\ UNCHANGED <<inputs, result, modelCalls>>

\* generateObject rejects
ModelError(error) ==
  /\ pc = "model"
  /\ log' = [log EXCEPT ![Len(log)].modelError = Some(error)]
  /\ Catch(error, lastValidationResult, lastPlantUMLAttempt)
  /\ UNCHANGED outside
  /\ UNCHANGED <<inputs, lastValidationResult, lastPlantUMLAttempt,
                 candidate, result, modelCalls, renderCalls>>

\* validatePlantUMLByRendering resolves: return, or the catch block
RenderDone(fetch) ==
  /\ pc = "render"
  /\ LET renderValidation == validatePlantUMLByRendering(fetch)
     IN  /\ log' = [log EXCEPT ![Len(log)].render = Some(renderValidation)]
         /\ IF RenderRejects(renderValidation)
            THEN /\ lastValidationResult' =
                      Some(RenderFeedback(renderValidation))
                 /\ Catch(RenderFailure(renderValidation),
                          lastValidationResult', lastPlantUMLAttempt)
                 /\ UNCHANGED result
            ELSE /\ pc' = "returned"
                 /\ result' =
                      Some(IF operation = "generate"
                           THEN [description |-> candidate.description,
                                 plantuml |-> candidate.plantuml,
                                 diagramType |->
                                   ReturnedKind(candidate.diagramType,
                                                diagramType)]
                           ELSE [plantuml |-> candidate.plantuml,
                                 changes |-> <<candidate.changes>>])
                 /\ UNCHANGED <<attempt, lastError, lastValidationResult,
                                thrown, delays>>
  /\ UNCHANGED outside
  /\ UNCHANGED <<inputs, lastPlantUMLAttempt, candidate, modelCalls,
                 renderCalls>>

\* the backoff timer fires: next iteration of the loop
DelayDone ==
  /\ pc = "delay"
  /\ NextIteration
  /\ UNCHANGED outside
  /\ UNCHANGED <<inputs, lastError, lastValidationResult,
                 lastPlantUMLAttempt, candidate, result, modelCalls,
                 renderCalls, delays, log>>

Next ==
  \/ StartAttempt
  \/ \E reply \in Replies(operation) : ModelReply(reply)
  \/ \E error \in ModelErrors : ModelError(error)
  \/ \E fetch \in FetchOutcomes : RenderDone(fetch)
  \/ DelayDone

Spec == Init /\ [][Next]_vars

\* every pending model call, render validation and backoff completes
LiveSpec == Spec /\ WF_vars(Next)

(***************************************************************************)
(* Properties of the retry loop                                            *)
(***************************************************************************)

Finished == pc \in {"returned", "thrown"}

\* the verdict of the validator that failed attempt k, if one did
FailedVerdict(k) ==
  IF log[k].syntax # None /\ ~log[k].syntax[1].valid THEN log[k].syntax
  ELSE IF log[k].render # None /\ ~log[k].render[1].valid THEN log[k].render
  ELSE None

\* all MAX_RETRIES attempts were made and the last one failed
Exhausted == pc = "thrown" /\ modelCalls = MAX_RETRIES

\* every string of the list occurs in the message
ContainsAll(message, strings) ==
  \A i \in 1..Len(strings) : Contains(message, strings[i])

\* C1: a diagram text is returned only if, in the very attempt that produced
\* it, the Syntax Validator and then the Render Validator returned valid;
\* nothing is returned in any other state
C1_ReturnedOnlyIfBothValid ==
  /\ result # None => pc = "returned"
  /\ pc = "returned" =>
       /\ result # None
       /\ Len(log) = attempt
       /\ LET a == log[Len(log)]
          IN  /\ a.attempt = attempt
              /\ a.reply # None
              /\ a.reply[1].plantuml = result[1].plantuml
              /\ a.syntax # None /\ a.syntax[1].valid
              /\ a.render # None /\ a.render[1].valid
       /\ validatePlantUMLForAI(result[1].plantuml,
                                SyntaxKind(operation, diagramType)).valid

\* a text is returned by a retry, after a first attempt that failed
C1_Witness ==
  /\ pc = "returned"
  /\ attempt = 2
  /\ FailedVerdict(1) # None

\* C2: the number of model invocations of a call never exceeds MAX_RETRIES
\* and the attempt index stays within 1..MAX_RETRIES
C2_BoundedModelCalls ==
  /\ modelCalls <= MAX_RETRIES
  /\ modelCalls = Len(log)
  /\ attempt \in 1..MAX_RETRIES

\* every attempt of the call failed validation
C2_Witness ==
  /\ Exhausted
  /\ \A k \in 1..MAX_RETRIES : FailedVerdict(k) # None

\* C3: a call whose model calls, render validations and delays complete
\* ends by returning a candidate or by throwing, and never with the throw
\* that follows the loop
C3_Terminates ==
  /\ <>Finished
  /\ [](thrown # Some(UnexpectedError(operation)))
  /\ []((pc = "returned" <=> result # None) /\ (pc = "thrown" <=> thrown # None))

\* a call that used every attempt and its backoff before it threw
C3_Witness ==
  /\ pc = "thrown"
  /\ attempt = MAX_RETRIES
  /\ Len(delays) = MAX_RETRIES - 1

\* attempt 1 passed both validators
FirstAttemptPassed ==
  /\ Len(log) >= 1
  /\ log[1].syntax # None /\ log[1].syntax[1].valid
  /\ log[1].render # None /\ log[1].render[1].valid

\* C4: when the candidate of attempt 1 passes both validators the call makes
\* exactly one model call and one render validation, no delay, and returns
\* that candidate
C4_FirstAttemptSuccess ==
  FirstAttemptPassed =>
    /\ pc = "returned"
    /\ modelCalls = 1
    /\ renderCalls = 1
    /\ delays = <<>>
    /\ attempt = 1
    /\ result[1].plantuml = log[1].reply[1].plantuml

C4_Witness == FirstAttemptPassed /\ result # None

\* the syntax validation of attempt k failed
SyntaxFailedAt(k) ==
  /\ k <= Len(log)
  /\ log[k].syntax # None
  /\ ~log[k].syntax[1].valid

\* C5: when syntax validation fails on attempt k < MAX_RETRIES, attempt k+1
\* follows and its prompt contains every error string and every suggestion
\* of attempt k's verdict
C5_FeedbackPropagation ==
  \A k \in 1..(MAX_RETRIES - 1) :
    SyntaxFailedAt(k) =>
      /\ pc \notin {"returned", "thrown"} \/ Len(log) > k
      /\ Len(log) > k =>
           /\ log[k + 1].attempt = k + 1
           /\ ContainsAll(log[k + 1].prompt, log[k].syntax[1].errors)
           /\ ContainsAll(log[k + 1].prompt, log[k].syntax[1].suggestions)

\* a retry prompt built after a syntax verdict with several errors
C5_Witness ==
  /\ Len(log) = 2
  /\ SyntaxFailedAt(1)
  /\ Len(log[1].syntax[1].errors) >= 2

\* the diagram text of the last candidate the model produced, if any
LastCandidateTexts ==
  {log[k].reply[1].plantuml :
     k \in {j \in 1..Len(log) :
              /\ log[j].reply # None
              /\ \A i \in (j + 1)..Len(log) : log[i].reply = None}}

\* C6: on retry exhaustion the message of the thrown error contains the
\* diagram text of the last candidate the model produced
C6_ExhaustionCarriesLastText ==
  Exhausted =>
    /\ thrown # None
    /\ thrown[1].name = "AIError"
    /\ \A t \in LastCandidateTexts : Contains(thrown[1].message, t)

\* exhaustion with a last candidate that is not the empty text
C6_Witness ==
  /\ Exhausted
  /\ \E t \in LastCandidateTexts : t # <<>>

\* the attempts whose candidate failed a validator
FailedAttempts == {k \in 1..Len(log) : FailedVerdict(k) # None}

\* C7 as stated: the message embeds the errors and the suggestions of the
\* verdicts of all failed attempts of the call
C7_CumulativeFeedback ==
  Exhausted =>
    \A k \in FailedAttempts :
      /\ ContainsAll(thrown[1].message, FailedVerdict(k)[1].errors)
      /\ ContainsAll(thrown[1].message, FailedVerdict(k)[1].suggestions)

\* C7 amended: the message embeds the errors and the suggestions of the
\* most recent failed verdict of the call, and the last candidate's text
C7_FinalFeedback ==
  Exhausted =>
    /\ \A k \in FailedAttempts :
         (\A j \in FailedAttempts : j <= k) =>
           /\ ContainsAll(thrown[1].message, FailedVerdict(k)[1].errors)
           /\ ContainsAll(thrown[1].message, FailedVerdict(k)[1].suggestions)
    /\ \A t \in LastCandidateTexts : Contains(thrown[1].message, t)

\* exhaustion after two failed verdicts, the earlier one with an error the
\* message does not carry
C7_Witness ==
  /\ Exhausted
  /\ FailedAttempts = {1, 2}
  /\ ~ContainsAll(thrown[1].message, FailedVerdict(1)[1].errors)

\* C8: without the credential the call throws the configuration error in
\* attempt 1, with no model call, no validator call, no delay and no second
\* attempt
C8_MissingKeyFailsAtOnce ==
  ~apiKey =>
    /\ modelCalls = 0
    /\ renderCalls = 0
    /\ log = <<>>
    /\ delays = <<>>
    /\ attempt = 1
    /\ pc \in {"loop", "thrown"}
    /\ pc = "thrown" => thrown = Some(MissingKeyError)

C8_Witness == ~apiKey /\ pc = "thrown"

\* C9 as stated: a failure of the model call is thrown on at once and as it
\* is, with no further model call
C9_ModelFailurePropagates ==
  \A k \in 1..Len(log) :
    log[k].modelError # None =>
      /\ pc = "thrown"
      /\ thrown = log[k].modelError
      /\ modelCalls = k

\* C10 as stated: the returned kind always equals the requested kind
C10_ReturnsRequestedKind ==
  (pc = "returned" /\ operation = "generate") =>
    result[1].diagramType = diagramType

\* C10 amended: the returned kind is the kind the model's reply reports
C10_ReturnsReportedKind ==
  (pc = "returned" /\ operation = "generate") =>
    /\ result[1].diagramType = log[Len(log)].reply[1].diagramType
    /\ result[1].diagramType \in DiagramTypes

\* a returned kind that differs from the requested one
C10_Witness ==
  /\ pc = "returned"
  /\ operation = "generate"
  /\ result[1].diagramType # diagramType

(***************************************************************************)
(* The HTTP layer: the POST handlers of /api/generate and /api/edit.  A    *)
(* handler runs from the arrival of the request to its first await of the  *)
(* orchestrator (Receive), is suspended while the orchestrator runs, and   *)
(* resumes when the orchestrator returns or throws.  Requests are handled  *)
(* one after the other.                                                    *)
(***************************************************************************)

\* a member of the parsed body: absent, a number, or a string
Absent == [type |-> "undefined", str |-> <<>>]

Num == [type |-> "number", str |-> <<>>]

Str(chars) == [type |-> "string", str |-> chars]

\* the member diagramType: absent, a number, or a string given by its name
KindAbsent == [type |-> "undefined", name |-> ""]

KindNum == [type |-> "number", name |-> ""]

KindStr(name) == [type |-> "string", name |-> name]

\* !x is false: a non-zero number or a non-empty string
Truthy(x) == x.type = "number" \/ (x.type = "string" /\ x.str # <<>>)

KindTruthy(k) == k.type = "number" \/ (k.type = "string" /\ k.name # "")

\* validDiagramTypes.includes(body.diagramType)
IsValidDiagramType(k) == k.type = "string" /\ k.name \in DiagramTypes

\* body.diagramType || 'component'
KindOrDefault(k) == IF KindTruthy(k) THEN k.name ELSE "component"

MaxDescriptionLength == 5000

MaxInstructionLength == 2000

\* mutant: no text counts as empty
TrimmedEmpty_never(chars) == FALSE

\* body.description.trim().length === 0
TrimmedEmpty(chars) == Len(Trim(chars)) = 0

\* body.description.length > 5000, body.editInstructions.length > 2000
TooLong(chars, max) == Len(chars) > max

\* NextResponse.json(body, { status })
Json(status, error, details, validationErrors, data) ==
  [status |-> status, error |-> error, details |-> details,
   validationErrors |-> validationErrors, data |-> data]

ErrorResponse(status, message) == Json(status, Some(message), None, None, None)

DataResponse(data) == Json(200, None, None, None, Some(data))

\* the errors request.json() and the member access throw
JsonSyntaxError ==
  [name |-> "SyntaxError",
   message |-> <<"Unexpected token 'o', \"not json\" is not valid JSON">>]

NullBodyError ==
  [name |-> "TypeError",
   message |-> <<"Cannot read properties of null">>]

\* error.message.includes('after 4 attempts')
S_after4Attempts == <<"after ">> \o Digits(4) \o <<" attempts">>

GenerateExhaustedText ==
  <<"Failed to generate valid PlantUML diagram after multiple attempts. The AI is having trouble creating proper syntax. Please try rephrasing your description or try again later.">>

EditExhaustedText ==
  <<"Failed to generate valid PlantUML after multiple editing attempts. The AI is having trouble creating proper syntax. Please try a different edit instruction or try again later.">>

\* the catch block of a POST handler
CatchResponse(r, error) ==
  IF error.name = "AIError"
  THEN IF Contains(error.message, S_after4Attempts)
       THEN Json(502,
                 Some(IF r = "generate" THEN GenerateExhaustedText
                      ELSE EditExhaustedText),
                 Some(error.message), None, None)
       ELSE ErrorResponse(502, <<"AI service error: ">> \o error.message)
  ELSE IF r = "edit" /\ error.name = "PlantUMLError"
  THEN ErrorResponse(400, <<"PlantUML processing error: ">> \o error.message)
  ELSE IF Contains(error.message, <<"API key">>)
  THEN ErrorResponse(500, <<"AI service configuration error">>)
  ELSE ErrorResponse(500,
         IF r = "generate"
         THEN <<"Internal server error while generating diagram">>
         ELSE <<"Internal server error while editing diagram">>)

\* what a handler has decided when it responds or reaches the orchestrator
Responds(resp, c, key, cached) ==
  [respond |-> TRUE, response |-> resp, cache |-> c, cacheKey |-> key,
   cachedResult |-> cached, args |-> <<>>]

Delegates(args, c, key) ==
  [respond |-> FALSE, response |-> <<>>, cache |-> c, cacheKey |-> key,
   cachedResult |-> None, args |-> args]

NotConfigured ==
  ErrorResponse(500,
    <<"AI service not configured. Please check environment variables.">>)

\* mutant: a cached result is not used
CacheHit_never(cached) == FALSE

\* if (cachedResult)
CacheHit(cached) == cached # None

\* POST of /api/generate up to "await generateDiagram(...)"
GenerateEntry(b, hasKey, c, time) ==
  IF ~hasKey THEN Responds(NotConfigured, c, None, None)
  ELSE IF b.json = "invalid"
  THEN Responds(CatchResponse("generate", JsonSyntaxError), c, None, None)
  ELSE IF b.json = "null"
  THEN Responds(CatchResponse("generate", NullBodyError), c, None, None)
  ELSE IF ~Truthy(b.description) \/ b.description.type # "string"
  THEN Responds(ErrorResponse(400,
                  <<"Description is required and must be a string">>),
                c, None, None)
  ELSE IF TrimmedEmpty(b.description.str)
  THEN Responds(ErrorResponse(400, <<"Description cannot be empty">>),
                c, None, None)
  ELSE IF TooLong(b.description.str, MaxDescriptionLength)
  THEN Responds(ErrorResponse(400,
                  <<"Description is too long (maximum 5000 characters)">>),
                c, None, None)
  ELSE IF KindTruthy(b.diagramType) /\ ~IsValidDiagramType(b.diagramType)
  THEN Responds(ErrorResponse(400, <<"Invalid diagram type">>),
                c, None, None)
  ELSE
    LET kind == KindOrDefault(b.diagramType)
        key == createDiagramCacheKey(Trim(b.description.str), kind)
        looked == get(c, key, time)
    IN  IF CacheHit(looked.data)
        THEN Responds(DataResponse(looked.data[1]), looked.cache, Some(key),
                      looked.data)
        ELSE Delegates(<<Trim(b.description.str), kind>>, looked.cache,
                       Some(key))

\* POST of /api/edit from "const validation = validatePlantUML(plantuml)" up
\* to "await editDiagram(...)"
EditValidated(b, c, validation) ==
  IF ~validation.valid
  THEN Responds(Json(400, Some(<<"Invalid PlantUML code provided">>), None,
                     Some(validation.errors), None),
                c, None, None)
  ELSE Delegates(<<Trim(b.plantuml.str), Trim(b.editInstructions.str)>>,
                 c, None)

\* POST of /api/edit up to "await editDiagram(...)"
EditEntry(b, hasKey, c) ==
  IF ~hasKey THEN Responds(NotConfigured, c, None, None)
  ELSE IF b.json = "invalid"
  THEN Responds(CatchResponse("edit", JsonSyntaxError), c, None, None)
  ELSE IF b.json = "null"
  THEN Responds(CatchResponse("edit", NullBodyError), c, None, None)
  ELSE IF ~Truthy(b.plantuml) \/ b.plantuml.type # "string"
  THEN Responds(ErrorResponse(400,
                  <<"PlantUML code is required and must be a string">>),
                c, None, None)
  ELSE IF ~Truthy(b.editInstructions) \/ b.editInstructions.type # "string"
  THEN Responds(ErrorResponse(400,
                  <<"Edit instructions are required and must be a string">>),
                c, None, None)
  ELSE IF TrimmedEmpty(b.editInstructions.str)
  THEN Responds(ErrorResponse(400, <<"Edit instructions cannot be empty">>),
                c, None, None)
  ELSE IF TooLong(b.editInstructions.str, MaxInstructionLength)
  THEN Responds(ErrorResponse(400,
         <<"Edit instructions are too long (maximum 2000 characters)">>),
                c, None, None)
  ELSE EditValidated(b, c, validatePlantUMLForAI(b.plantuml.str, NoType))

\* 'x'.repeat(n)
Repeat(c, n) == [i \in 1..n |-> c]

GenerateBody(d, k) ==
  [json |-> "object", description |-> d, diagramType |-> k,
   plantuml |-> Absent, editInstructions |-> Absent]

EditBody(t, i) ==
  [json |-> "object", description |-> Absent, diagramType |-> KindAbsent,
   plantuml |-> t, editInstructions |-> i]

\* a body that is not JSON, and the JSON text null
InvalidJson == [json |-> "invalid"]

NullJson == [json |-> "null"]

D_shop == <<"S", "h", "o", "p">>

D_shopSpaced == <<" ", "s", "h", "o", "p", " ">>

\* two descriptions whose cache keys are equal: 'e-' and 'ck' both hash to
\* 101 * 31 + 45 = 99 * 31 + 107
D_eshop == <<"e", "-", "s", "h", "o", "p">>

D_ckshop == <<"c", "k", "s", "h", "o", "p">>

I_addB == <<"a", "d", "d", " ", "B">>

GenerateBodies ==
  {InvalidJson, NullJson,
   GenerateBody(Str(D_shop), KindStr("component")),
   GenerateBody(Str(D_shopSpaced), KindAbsent),
   GenerateBody(Str(D_shop), KindStr("class")),
   GenerateBody(Str(D_eshop), KindStr("component")),
   GenerateBody(Str(D_ckshop), KindStr("component")),
   GenerateBody(Str(D_shop), KindStr("")),
   GenerateBody(Absent, KindStr("component")),
   GenerateBody(Num, KindStr("component")),
   GenerateBody(Str(<<>>), KindStr("component")),
   GenerateBody(Str(<<" ", "\n", " ">>), KindAbsent),
   GenerateBody(Str(Repeat("x", MaxDescriptionLength + 1)),
                KindStr("component")),
   GenerateBody(Str(D_shop), KindStr("flowchart")),
   GenerateBody(Str(D_shop), KindNum)}

EditBodies ==
  {InvalidJson, NullJson,
   EditBody(Str(T_component), Str(I_addB)),
   EditBody(Str(T_component), Str(Repeat("x", MaxInstructionLength + 1))),
   EditBody(Absent, Str(Repeat("x", MaxInstructionLength + 1))),
   EditBody(Str(T_component), Absent),
   EditBody(Str(T_component), Num),
   EditBody(Str(T_component), Str(<<" ", " ">>)),
   EditBody(Num, Str(I_addB)),
   EditBody(Str(T_unclosed), Str(I_addB))}

Bodies(r) == IF r = "generate" THEN GenerateBodies ELSE EditBodies

\* the replies, failures and render outcomes the requests meet
RouteReplies(op) ==
  IF op = "generate"
  THEN {[description |-> <<"## Architecture ...">>, plantuml |-> t,
         diagramType |-> "component", changes |-> <<>>] :
          t \in {T_component, T_unclosed}}
  ELSE {[description |-> <<>>, plantuml |-> t, diagramType |-> "",
         changes |-> <<"Added the requested element">>] :
          t \in {T_component, T_unclosed}}

RouteModelErrors == {PlainError(<<"fetch failed">>)}

RouteFetches ==
  {[kind |-> "status", status |-> 200], [kind |-> "status", status |-> 400]}

MaxRequests == 2

\* the clock moves in steps of 13 hours, up to 26 hours
ClockStep == 13 * 60 * 60 * 1000

MaxNow == 2 * ClockStep

\* the entry of generateDiagram / editDiagram: the locals before the loop
Invoke(op, desc, kind, existing, instructions) ==
  /\ operation' = op
  /\ description' = desc
  /\ diagramType' = kind
  /\ existingPlantUML' = existing
  /\ editInstructions' = instructions
  /\ pc' = "loop"
  /\ attempt' = 1
  /\ lastError' = None
  /\ lastValidationResult' = None
  /\ lastPlantUMLAttempt' = <<>>
  /\ candidate' = NoCandidate
  /\ result' = None
  /\ thrown' = None
  /\ modelCalls' = 0
  /\ renderCalls' = 0
  /\ delays' = <<>>
  /\ log' = <<>>
  /\ UNCHANGED apiKey

\* the call is over and its locals are gone
Release ==
  /\ operation' = "none"
  /\ description' = <<>>
  /\ diagramType' = NoType
  /\ existingPlantUML' = <<>>
  /\ editInstructions' = <<>>
  /\ pc' = "idle"
  /\ attempt' = 0
  /\ lastError' = None
  /\ lastValidationResult' = None
  /\ lastPlantUMLAttempt' = <<>>
  /\ candidate' = NoCandidate
  /\ result' = None
  /\ thrown' = None
  /\ modelCalls' = 0
  /\ renderCalls' = 0
  /\ delays' = <<>>
  /\ log' = <<>>
  /\ UNCHANGED apiKey

RouteInit ==
  /\ apiKey \in BOOLEAN
  /\ OrchestratorAtRest
  /\ ValidatorAtRest
  /\ ConcAtRest
  /\ ExtraAtRest
  /\ route = "none"
  /\ body = <<>>
  /\ rpc = "idle"
  /\ response = None
  /\ cacheKey = None
  /\ cachedResult = None
  /\ requests = 0
  /\ cache = <<>>
  /\ maxSize = DiagramCacheSize
  /\ now = 0
  /\ recency = <<>>
  /\ lastCall = <<"new">>

\* a request arrives and its handler runs up to its response or up to the
\* await of the orchestrator
Receive(r, b) ==
  /\ rpc = "idle"
  /\ requests < MaxRequests
  /\ \E h \in {IF r = "generate" THEN GenerateEntry(b, apiKey, cache, now)
                ELSE EditEntry(b, apiKey, cache)} :
       /\ cache' = h.cache
       /\ cacheKey' = h.cacheKey
       /\ cachedResult' = h.cachedResult
       /\ IF h.respond
          THEN /\ rpc' = "responded"
               /\ response' = Some(h.response)
               /\ UNCHANGED orchVars
          ELSE /\ rpc' = "awaiting"
               /\ response' = None
               /\ IF r = "generate"
                  THEN Invoke("generate", h.args[1], h.args[2], <<>>, <<>>)
                  ELSE Invoke("edit", <<>>, NoType, h.args[1], h.args[2])
  /\ route' = r
  /\ body' = b
  /\ requests' = requests + 1
  /\ UNCHANGED <<valVars, concVars, extraVars, maxSize, now, recency, lastCall>>

\* generateDiagram / editDiagram returned: the result is cached (generate)
\* and sent with status 200
OrchestratorReturns ==
  /\ rpc = "awaiting"
  /\ pc = "returned"
  /\ IF route = "generate"
     THEN /\ cache' = set(cache, maxSize, cacheKey[1],
                          [description |-> result[1].description,
                           plantuml |-> result[1].plantuml,
                           diagramType |-> result[1].diagramType],
                          DiagramTtl, now)
          /\ response' =
               Some(DataResponse([description |-> result[1].description,
                                  plantuml |-> result[1].plantuml,
                                  diagramType |-> result[1].diagramType]))
     ELSE /\ response' =
               Some(DataResponse([plantuml |-> result[1].plantuml,
                                  changes |-> result[1].changes]))
          /\ UNCHANGED cache
  /\ storedFor' =
       IF route = "generate"
       THEN Append(storedFor, [key |-> cacheKey[1],
                               description |-> description,
                               diagramType |-> diagramType])
       ELSE storedFor
  /\ rpc' = "responded"
  /\ UNCHANGED <<orchVars, valVars, concVars, renderVars, ttlVars, hookVars,
                 route, body, cacheKey, cachedResult,
                 requests, maxSize, now, recency, lastCall>>

\* generateDiagram / editDiagram threw: the catch block of the handler
OrchestratorThrows ==
  /\ rpc = "awaiting"
  /\ pc = "thrown"
  /\ response' = Some(CatchResponse(route, thrown[1]))
  /\ rpc' = "responded"
  /\ UNCHANGED <<orchVars, valVars, concVars, extraVars, route, body, cacheKey,
                 cachedResult,
                 requests, cacheVars>>

\* the response is sent and the handler is over
Close ==
  /\ rpc = "responded"
  /\ rpc' = "idle"
  /\ route' = "none"
  /\ body' = <<>>
  /\ response' = None
  /\ cacheKey' = None
  /\ cachedResult' = None
  /\ Release
  /\ UNCHANGED <<valVars, concVars, extraVars, requests, cacheVars>>

\* time passes between two requests
Tick ==
  /\ rpc = "idle"
  /\ now < MaxNow
  /\ now' = now + ClockStep
  /\ UNCHANGED <<orchVars, valVars, concVars, extraVars, httpVars, cache, maxSize,
                 recency, lastCall>>

RouteNext ==
  \/ \E r \in {"generate", "edit"} : \E b \in Bodies(r) : Receive(r, b)
  \/ StartAttempt
  \/ \E reply \in RouteReplies(operation) : ModelReply(reply)
  \/ \E error \in RouteModelErrors : ModelError(error)
  \/ \E fetch \in RouteFetches : RenderDone(fetch)
  \/ DelayDone
  \/ OrchestratorReturns
  \/ OrchestratorThrows
  \/ Close
  \/ Tick

RouteSpec == RouteInit /\ [][RouteNext]_vars

(***************************************************************************)
(* Two calls of the orchestrator in progress at the same time (two         *)
(* requests being handled).  Every variable of generateDiagram and of      *)
(* editDiagram is a parameter or a local of the call, so each call has its *)
(* own copy.  The variables of the state machine above are the locals of   *)
(* the call that takes the next step; the locals of the other call, which  *)
(* is suspended at an await, are kept in the record other.  Switch hands   *)
(* the turn to the other call; it can happen between any two steps.        *)
(***************************************************************************)

\* the locals of the call whose turn it is, as a record
Frame ==
  [operation |-> operation, description |-> description,
   diagramType |-> diagramType, existingPlantUML |-> existingPlantUML,
   editInstructions |-> editInstructions, pc |-> pc, attempt |-> attempt,
   lastError |-> lastError, lastValidationResult |-> lastValidationResult,
   lastPlantUMLAttempt |-> lastPlantUMLAttempt, candidate |-> candidate,
   result |-> result, thrown |-> thrown, modelCalls |-> modelCalls,
   renderCalls |-> renderCalls, delays |-> delays, log |-> log]

\* the locals of a call at its entry
EntryFrame(op, desc, kind, existing, instructions) ==
  [operation |-> op, description |-> desc, diagramType |-> kind,
   existingPlantUML |-> existing, editInstructions |-> instructions,
   pc |-> "loop", attempt |-> 1, lastError |-> None,
   lastValidationResult |-> None, lastPlantUMLAttempt |-> <<>>,
   candidate |-> NoCandidate, result |-> None, thrown |-> None,
   modelCalls |-> 0, renderCalls |-> 0, delays |-> <<>>, log |-> <<>>]

\* the calls made at the same time as generateDiagram('Shop', 'component')
SecondCalls ==
  {EntryFrame("edit", <<>>, NoType, T_component, I_addB),
   EntryFrame("generate", <<"B", "a", "n", "k">>, "class", <<>>, <<>>)}

ConcReplies(op) ==
  IF op = "generate"
  THEN {[description |-> <<"## Architecture ...">>, plantuml |-> t,
         diagramType |-> "component", changes |-> <<>>] :
          t \in {T_component, T_unclosed}}
  ELSE {[description |-> <<>>, plantuml |-> t, diagramType |-> "",
         changes |-> <<"Added the requested element">>] :
          t \in {T_component, T_bare}}

ConcInit ==
  /\ apiKey = TRUE
  /\ operation = "generate"
  /\ description = D_shop
  /\ diagramType = "component"
  /\ existingPlantUML = <<>>
  /\ editInstructions = <<>>
  /\ pc = "loop"
  /\ attempt = 1
  /\ lastError = None
  /\ lastValidationResult = None
  /\ lastPlantUMLAttempt = <<>>
  /\ candidate = NoCandidate
  /\ result = None
  /\ thrown = None
  /\ modelCalls = 0
  /\ renderCalls = 0
  /\ delays = <<>>
  /\ log = <<>>
  /\ other \in SecondCalls
  /\ current = 1
  /\ ValidatorAtRest
  /\ HttpAtRest
  /\ CacheAtRest
  /\ ExtraAtRest

\* mutant: lastPlantUMLAttempt is one variable shared by the two calls
Switch_sharedText ==
  /\ other.pc \notin {"returned", "thrown"}
  /\ other' = Frame
  /\ current' = 3 - current
  /\ operation' = other.operation
  /\ description' = other.description
  /\ diagramType' = other.diagramType
  /\ existingPlantUML' = other.existingPlantUML
  /\ editInstructions' = other.editInstructions
  /\ pc' = other.pc
  /\ attempt' = other.attempt
  /\ lastError' = other.lastError
  /\ lastValidationResult' = other.lastValidationResult
  /\ lastPlantUMLAttempt' = lastPlantUMLAttempt
  /\ candidate' = other.candidate
  /\ result' = other.result
  /\ thrown' = other.thrown
  /\ modelCalls' = other.modelCalls
  /\ renderCalls' = other.renderCalls
  /\ delays' = other.delays
  /\ log' = other.log
  /\ UNCHANGED <<apiKey, valVars, httpVars, cacheVars, extraVars>>

\* the call whose turn it is stays suspended and the other call, if it is
\* not over, takes the next step
Switch ==
  /\ other.pc \notin {"returned", "thrown"}
  /\ other' = Frame
  /\ current' = 3 - current
  /\ operation' = other.operation
  /\ description' = other.description
  /\ diagramType' = other.diagramType
  /\ existingPlantUML' = other.existingPlantUML
  /\ editInstructions' = other.editInstructions
  /\ pc' = other.pc
  /\ attempt' = other.attempt
  /\ lastError' = other.lastError
  /\ lastValidationResult' = other.lastValidationResult
  /\ lastPlantUMLAttempt' = other.lastPlantUMLAttempt
  /\ candidate' = other.candidate
  /\ result' = other.result
  /\ thrown' = other.thrown
  /\ modelCalls' = other.modelCalls
  /\ renderCalls' = other.renderCalls
  /\ delays' = other.delays
  /\ log' = other.log
  /\ UNCHANGED <<apiKey, valVars, httpVars, cacheVars, extraVars>>

ConcNext ==
  \/ StartAttempt
  \/ \E reply \in ConcReplies(operation) : ModelReply(reply)
  \/ \E error \in RouteModelErrors : ModelError(error)
  \/ \E fetch \in RouteFetches : RenderDone(fetch)
  \/ DelayDone
  \/ Switch

ConcSpec == ConcInit /\ [][ConcNext]_vars

(***************************************************************************)
(* A MemoryCache on its own: a cache of CacheMaxSize entries on which      *)
(* set, get and delete are called while time passes.                       *)
(***************************************************************************)

CacheMaxSize == 2

CacheKeys == {<<>>, <<"a">>, <<"b">>, <<"c">>}

CacheData == {"v"}

\* the clock moves in steps of 200 seconds
CacheClockStep == 200 * 1000

MaxTicks == 2

CacheMaxNow == MaxTicks * CacheClockStep

\* the keys of the entries of a Map, in its order
KeysOf(c) == [i \in 1..Len(c) |-> c[i].key]

\* a key becomes the most recently used one
RECURSIVE Without(_, _)
Without(keys, key) ==
  IF keys = <<>> THEN <<>>
  ELSE IF keys[1] = key THEN Without(Tail(keys), key)
  ELSE <<keys[1]>> \o Without(Tail(keys), key)

Used(keys, key) == Append(Without(keys, key), key)

\* the keys that are still in the Map, in the order of their latest use
RECURSIVE StillIn(_, _)
StillIn(keys, c) ==
  IF keys = <<>> THEN <<>>
  ELSE IF Position(c, keys[1], 1) # 0
  THEN <<keys[1]>> \o StillIn(Tail(keys), c)
  ELSE StillIn(Tail(keys), c)

CacheInit ==
  /\ cache = <<>>
  /\ maxSize = CacheMaxSize
  /\ now = 0
  /\ recency = <<>>
  /\ lastCall = <<"new">>
  /\ apiKey = TRUE
  /\ OrchestratorAtRest
  /\ ValidatorAtRest
  /\ HttpAtRest
  /\ ConcAtRest
  /\ ExtraAtRest

\* cache.set(key, data)
Set(key, data) ==
  /\ cache' = set(cache, maxSize, key, data, DefaultTtl, now)
  /\ recency' = StillIn(Used(recency, key), cache')
  /\ lastCall' = <<"set", key>>
  /\ UNCHANGED <<maxSize, now, orchVars, valVars, httpVars, concVars, extraVars>>

\* cache.get(key)
Get(key) ==
  /\ cache' = get(cache, key, now).cache
  /\ recency' = IF get(cache, key, now).data # None
                THEN StillIn(Used(recency, key), cache')
                ELSE StillIn(recency, cache')
  /\ lastCall' = <<"get", key>>
  /\ UNCHANGED <<maxSize, now, orchVars, valVars, httpVars, concVars, extraVars>>

\* cache.delete(key)
Delete(key) ==
  /\ Position(cache, key, 1) # 0
  /\ cache' = MapDelete(cache, key)
  /\ recency' = StillIn(recency, cache')
  /\ lastCall' = <<"delete", key>>
  /\ UNCHANGED <<maxSize, now, orchVars, valVars, httpVars, concVars, extraVars>>

\* time passes
CacheTick ==
  /\ now < CacheMaxNow
  /\ now' = now + CacheClockStep
  /\ lastCall' = <<"tick">>
  /\ UNCHANGED <<cache, maxSize, recency, orchVars, valVars, httpVars,
                 concVars, extraVars>>

CacheNext ==
  \/ \E key \in CacheKeys : \E data \in CacheData : Set(key, data)
  \/ \E key \in CacheKeys : Get(key)
  \/ \E key \in CacheKeys : Delete(key)
  \/ CacheTick

CacheSpec == CacheInit /\ [][CacheNext]_vars

(***************************************************************************)
(* The Syntax Validator on its own: validatePlantUMLForAI is called once   *)
(* with a text and, optionally, a diagram kind.  The texts are all the      *)
(* concatenations of at most MaxTokens tokens (the two markers, the line    *)
(* break and some brackets), and the sample diagram texts.                  *)
(***************************************************************************)

ValTokens ==
  <<S_startuml, S_enduml, NL, <<"[">>, <<"]">>, <<"(">>, <<"}">>>>

MaxTokens == 4

RECURSIVE ConcatTokens(_, _)
ConcatTokens(choice, i) ==
  IF i > Len(choice) THEN <<>>
  ELSE ValTokens[choice[i]] \o ConcatTokens(choice, i + 1)

ValTexts ==
  {ConcatTokens(choice, 1) :
     choice \in UNION {[1..n -> 1..Len(ValTokens)] : n \in 0..MaxTokens}}
  \cup {SampleTexts[i] : i \in 1..Len(SampleTexts)}

ValTypes == {NoType, "component"}

ValInit ==
  /\ valText \in ValTexts
  /\ valType \in ValTypes
  /\ valVerdict = None
  /\ apiKey = TRUE
  /\ OrchestratorAtRest
  /\ HttpAtRest
  /\ CacheAtRest
  /\ ConcAtRest
  /\ ExtraAtRest

\* const verdict = validatePlantUMLForAI(plantumlText, diagramType)
Validate ==
  /\ valVerdict = None
  /\ valVerdict' = Some(validatePlantUMLForAI(valText, valType))
  /\ UNCHANGED <<valText, valType, orchVars, httpVars, cacheVars, concVars,
                 extraVars>>

ValNext == Validate

ValSpec == ValInit /\ [][ValNext]_vars

(***************************************************************************)
(* Properties of the Syntax Validator                                      *)
(***************************************************************************)

Validated == valVerdict # None

IsBlank(s) == \A i \in 1..Len(s) : s[i] \in WhiteSpace

LacksStart(s) == ~Contains(s, S_startuml)

LacksEnd(s) == ~Contains(s, S_enduml)

\* the brackets of a text are balanced: every closer closes the nearest
\* open opener and is of its kind, and no opener stays open
RECURSIVE BalancedFrom(_, _, _)
BalancedFrom(s, i, open) ==
  IF i > Len(s) THEN open = <<>>
  ELSE IF s[i] \in {"(", "[", "{"}
  THEN BalancedFrom(s, i + 1, Append(open, s[i]))
  ELSE IF s[i] \in {")", "]", "}"}
  THEN /\ open # <<>>
       /\ <<open[Len(open)], s[i]>> \in {<<"(", ")">>, <<"[", "]">>,
                                          <<"{", "}">>}
       /\ BalancedFrom(s, i + 1, SubSeq(open, 1, Len(open) - 1))
  ELSE BalancedFrom(s, i + 1, open)

IsBalanced(s) == BalancedFrom(s, 1, <<>>)

\* the error names a closer that stands on line n of the text, or lists an
\* opener that stands on line n of the text as unclosed
NamesSymbolAndLine(error, text) ==
  LET lines == Split(text, "\n")
  IN  \E n \in 1..Len(lines) :
        \/ \E c \in {")", "]", "}"} :
             /\ \E i \in 1..Len(lines[n]) : lines[n][i] = c
             /\ error = <<"Unmatched '", c, "' on line ">> \o Digits(n)
        \/ \E c \in {"(", "[", "{"} :
             /\ \E i \in 1..Len(lines[n]) : lines[n][i] = c
             /\ error[1] = "Unclosed brackets/parentheses: "
             /\ Contains(error, <<"'", c, "' on line ">> \o Digits(n))

\* C11 as written: a text that lacks '@startuml' or '@enduml', an empty or
\* whitespace-only text included, is rejected, and some error of the
\* verdict mentions a marker that is missing.
C11_MissingMarkerNamed ==
  (Validated /\ (LacksStart(valText) \/ LacksEnd(valText)))
    => /\ ~valVerdict[1].valid
       /\ \E k \in 1..Len(valVerdict[1].errors) :
            \/ LacksStart(valText)
                 /\ Contains(valVerdict[1].errors[k], S_startuml)
            \/ LacksEnd(valText)
                 /\ Contains(valVerdict[1].errors[k], S_enduml)

\* C11 amended: a text that lacks '@startuml' or '@enduml' is rejected; when
\* it is not blank the errors hold 'Missing <marker> directive' for each
\* missing marker; when it is empty or whitespace-only the only error is
\* 'PlantUML text cannot be empty' and the markers are named by the
\* suggestion alone.
C11_MissingMarkerRejected ==
  (Validated /\ (LacksStart(valText) \/ LacksEnd(valText)))
    => LET v == valVerdict[1]
           Has(e) == \E k \in 1..Len(v.errors) : v.errors[k] = e
       IN  /\ ~v.valid
           /\ IF IsBlank(valText)
              THEN /\ v.errors = << <<"PlantUML text cannot be empty">> >>
                   /\ Len(v.suggestions) = 1
                   /\ Contains(v.suggestions[1], S_startuml)
                   /\ Contains(v.suggestions[1], S_enduml)
              ELSE /\ LacksStart(valText)
                        => Has(<<"Missing ">> \o S_startuml
                                 \o <<" directive">>)
                   /\ LacksEnd(valText)
                        => Has(<<"Missing ">> \o S_enduml
                                 \o <<" directive">>)

\* a text with brackets and the start marker but no end marker was judged
C11_Witness ==
  /\ Validated
  /\ ~IsBlank(valText)
  /\ ~LacksStart(valText)
  /\ LacksEnd(valText)
  /\ ~valVerdict[1].valid

\* C12: a text with both markers in the right order, balanced brackets and
\* no other finding is accepted with an empty error list; so is
\* '@startuml\n[A] --> [B]\n@enduml' judged as a component diagram.
C12_WellFormedAccepted ==
  Validated =>
    /\ (valText = T_component /\ valType = "component")
         => (valVerdict[1].valid /\ valVerdict[1].errors = <<>>)
    /\ ( /\ ~IsBlank(valText)
         /\ ~LacksStart(valText)
         /\ ~LacksEnd(valText)
         /\ IndexOf(valText, S_startuml) < IndexOf(valText, S_enduml)
         /\ checkBalancedBrackets(valText).valid
         /\ checkStringTermination(valText).valid
         /\ checkCommonSyntaxErrors(valText).valid
         /\ checkAdvancedSyntaxErrors(valText).valid
         /\ valType # NoType
              => validateDiagramTypeSpecificSyntax(valText, valType).valid )
         => (valVerdict[1].valid /\ valVerdict[1].errors = <<>>)

C12_Witness ==
  /\ Validated
  /\ valText = T_component
  /\ valType = "component"
  /\ valVerdict[1].valid

\* C13: a text whose (), [] or {} are not balanced (a closer without an
\* opener, a closer of the wrong kind, an opener never closed) is rejected
\* with an error that names the symbol and the 1-based line it stands on.
C13_UnbalancedBracketsLocated ==
  (Validated /\ ~IsBalanced(valText))
    => /\ ~valVerdict[1].valid
       /\ \E k \in 1..Len(valVerdict[1].errors) :
            NamesSymbolAndLine(valVerdict[1].errors[k], valText)
       /\ valText = T_unclosed
            => \E k \in 1..Len(valVerdict[1].errors) :
                 /\ valVerdict[1].errors[k][1]
                      = "Unclosed brackets/parentheses: "
                 /\ Contains(valVerdict[1].errors[k],
                             <<"'", "[", "' on line ">> \o Digits(2))

\* a closer of the wrong kind on the second line was judged
C13_Witness ==
  /\ Validated
  /\ valText = S_startuml \o NL \o <<"(", "]">>
  /\ \E k \in 1..Len(valVerdict[1].errors) :
       valVerdict[1].errors[k] = <<"Unmatched '", "]", "' on line ">>
                                   \o Digits(2)

\* C14: the validator returns a verdict for every text; valid holds exactly
\* when the error list is empty, and the suggestion list is at least as
\* long as the error list.
C14_VerdictWellFormed ==
  /\ validatePlantUMLForAI(valText, valType).valid \in BOOLEAN
  /\ Validated =>
       /\ valVerdict[1].valid \in BOOLEAN
       /\ valVerdict[1].valid <=> (valVerdict[1].errors = <<>>)
       /\ Len(valVerdict[1].suggestions) >= Len(valVerdict[1].errors)

\* a verdict with several errors, each with its suggestion
C14_Witness ==
  /\ Validated
  /\ Len(valVerdict[1].errors) >= 3
  /\ Len(valVerdict[1].suggestions) >= Len(valVerdict[1].errors)

(***************************************************************************)
(* Properties of the HTTP layer                                            *)
(***************************************************************************)

Responded == rpc = "responded"

IsObject(b) == b.json = "object"

\* the description is a string of white space only, the empty one included
BlankDescription(b) ==
  /\ b.description.type = "string"
  /\ \A i \in 1..Len(b.description.str) :
       b.description.str[i] \in {" ", "\n", "\t"}

LongDescription(b) ==
  b.description.type = "string" /\ Len(b.description.str) > 5000

\* a diagram kind is given and is none of the seven kinds
UnknownKind(b) ==
  /\ b.diagramType.type # "undefined"
  /\ ~(b.diagramType.type = "string" /\ b.diagramType.name \in DiagramTypes)

LongInstruction(b) ==
  b.editInstructions.type = "string" /\ Len(b.editInstructions.str) > 2000

\* the requests C15 lists
Listed(r, b) ==
  /\ IsObject(b)
  /\ \/ r = "generate"
          /\ (BlankDescription(b) \/ LongDescription(b) \/ UnknownKind(b))
     \/ r = "edit" /\ LongInstruction(b)

\* the same, but a kind given as the empty string does not count as given
ListedAndKindNotEmpty(r, b) ==
  /\ Listed(r, b)
  /\ r = "generate" =>
       \/ BlankDescription(b)
       \/ LongDescription(b)
       \/ UnknownKind(b) /\ b.diagramType.name # ""
       \/ UnknownKind(b) /\ b.diagramType.type = "number"

\* no call of the orchestrator has been made for the request
NeverInvoked == pc = "idle" /\ modelCalls = 0 /\ log = <<>>

MalformedInput(r, b) ==
  \/ ~IsObject(b)
  \/ r = "generate" /\ b.description.type # "string"
  \/ r = "generate" /\ b.diagramType.type = "number"
  \/ r = "edit" /\ b.plantuml.type # "string"
  \/ r = "edit" /\ b.editInstructions.type # "string"

\* the text the response carries: its error and its details
Diagnostic(resp) ==
  (IF resp.error # None THEN resp.error[1] ELSE <<>>)
    \o (IF resp.details # None THEN resp.details[1] ELSE <<>>)

\* C16: the routes answer 200 on success, 500 when the model credential is
\* missing, 502 with the orchestrator's message embedded when the
\* orchestrator fails (retry exhaustion or another model-side failure), and
\* 400 on malformed input, a body that is not valid JSON or has wrongly
\* typed members included.
C16_StatusMapping ==
  Responded =>
    /\ (pc = "returned" \/ cachedResult # None) => response[1].status = 200
    /\ ~apiKey => response[1].status = 500
    /\ pc = "thrown" =>
         /\ response[1].status = 502
         /\ Contains(Diagnostic(response[1]), thrown[1].message)
    /\ (apiKey /\ MalformedInput(route, body)) => response[1].status = 400

\* C18: the generate route looks in the cache before it calls the
\* orchestrator and fills it after: a request whose key has a live entry is
\* answered 200 from the cache with no orchestrator call, and an entry
\* appears in the cache only when generateDiagram has returned, holding what
\* it returned.
C18_CacheBeforeAndAfter ==
  [][ /\ ( /\ rpc = "idle"
           /\ rpc' # "idle"
           /\ cacheKey' # None
           /\ \E i \in 1..Len(cache) :
                /\ cache[i].key = cacheKey'[1]
                /\ now - cache[i].timestamp <= cache[i].ttl )
         => /\ rpc' = "responded"
            /\ response'[1].status = 200
            /\ \E i \in 1..Len(cache) :
                 /\ cache[i].key = cacheKey'[1]
                 /\ response'[1].data = Some(cache[i].data)
            /\ pc' = "idle"
            /\ modelCalls' = 0
      /\ \A i \in 1..Len(cache') :
           (\A j \in 1..Len(cache) : cache[j] # cache'[i])
             => /\ rpc = "awaiting"
                /\ route = "generate"
                /\ pc = "returned"
                /\ cache'[i].key = cacheKey[1]
                /\ cache'[i].data.plantuml = result[1].plantuml
                /\ cache'[i].data.description = result[1].description
    ]_vars

\* the second request was answered from the entry the first one wrote
C18_Witness ==
  /\ Responded
  /\ requests = 2
  /\ route = "generate"
  /\ cachedResult # None
  /\ response[1].status = 200
  /\ response[1].data = cachedResult
  /\ NeverInvoked

\* C19: when generation or editing has used up its retries, the route
\* answers 502 with the retry-exhaustion text for the user as its error
\* and the orchestrator's message in the member 'details'.
C19_ExhaustionAnswer ==
  (Responded /\ Exhausted)
    => /\ response[1].status = 502
       /\ response[1].error =
            Some(IF route = "generate" THEN GenerateExhaustedText
                 ELSE EditExhaustedText)
       /\ response[1].details = Some(thrown[1].message)

(***************************************************************************)
(* Properties of two calls in progress at the same time                    *)
(***************************************************************************)

\* the error an attempt ended with, read from the call's own record of it
AttemptError(entry) ==
  IF entry.modelError # None THEN entry.modelError
  ELSE IF entry.syntax # None /\ ~entry.syntax[1].valid
  THEN Some(SyntaxFailure(entry.syntax[1]))
  ELSE IF entry.render # None /\ ~entry.render[1].valid
  THEN Some(RenderFailure(entry.render[1]))
  ELSE None

\* the verdict an attempt left as feedback, if a validator failed it
AttemptFeedback(entry) ==
  IF entry.syntax # None /\ ~entry.syntax[1].valid
  THEN Some(SyntaxFeedback(entry.syntax[1]))
  ELSE IF entry.render # None /\ ~entry.render[1].valid
  THEN Some(RenderFeedback(entry.render[1]))
  ELSE None

\* the feedback of the latest of the first k attempts that left one
RECURSIVE FeedbackUpTo(_, _)
FeedbackUpTo(lg, k) ==
  IF k = 0 THEN None
  ELSE IF AttemptFeedback(lg[k]) # None THEN AttemptFeedback(lg[k])
  ELSE FeedbackUpTo(lg, k - 1)

\* the diagram text of the latest of the first k attempts that got a reply
RECURSIVE ReplyTextUpTo(_, _)
ReplyTextUpTo(lg, k) ==
  IF k = 0 THEN <<>>
  ELSE IF lg[k].reply # None THEN lg[k].reply[1].plantuml
  ELSE ReplyTextUpTo(lg, k - 1)

\* the locals and the outcome of a call are those its own arguments and
\* the replies it received itself determine
OwnState(f) ==
  LET n == Len(f.log)
  IN  /\ f.modelCalls = n
      /\ f.attempt = IF f.pc = "loop" THEN n + 1 ELSE n
      /\ \A k \in 1..n :
           /\ f.log[k].attempt = k
           /\ f.log[k].prompt =
                BuildPrompt(f.operation, f.description, f.diagramType,
                            f.existingPlantUML, f.editInstructions, k,
                            IF k = 1 THEN None ELSE AttemptError(f.log[k - 1]),
                            FeedbackUpTo(f.log, k - 1))
      /\ f.lastPlantUMLAttempt = ReplyTextUpTo(f.log, n)
      /\ f.lastValidationResult = FeedbackUpTo(f.log, n)
      /\ f.lastError =
           IF n = 0 THEN None
           ELSE IF AttemptError(f.log[n]) # None THEN AttemptError(f.log[n])
           ELSE IF n = 1 THEN None
           ELSE AttemptError(f.log[n - 1])
      /\ f.pc = "returned" =>
           /\ f.result # None
           /\ f.result[1].plantuml = f.log[n].reply[1].plantuml
           /\ AttemptError(f.log[n]) = None
      /\ f.pc = "thrown" =>
           /\ n = MAX_RETRIES
           /\ f.thrown =
                Some(AIError(ExhaustionMessage(f.operation,
                                               FeedbackUpTo(f.log, n),
                                               ReplyTextUpTo(f.log, n))))

\* C17: two calls of the orchestrator in progress at the same time are
\* independent: however their model calls, validations and delays
\* interleave, the attempt count, the feedback (lastError, the last verdict,
\* the last diagram text) and the outcome of each call are those determined
\* by its own arguments and by the replies it received.
C17_IndependentInvocations == OwnState(Frame) /\ OwnState(other)

\* both calls are under way, each with feedback of its own: one waits for
\* its second reply after a syntax failure, the other is in its backoff
\* after a failure of its own
C17_Witness ==
  /\ pc = "model"
  /\ modelCalls = 2
  /\ other.pc = "delay"
  /\ other.modelCalls = 1
  /\ lastPlantUMLAttempt # other.lastPlantUMLAttempt
  /\ lastValidationResult # None
  /\ other.lastValidationResult # None
  /\ lastValidationResult # other.lastValidationResult

(***************************************************************************)
(* Properties of the MemoryCache                                           *)
(***************************************************************************)

\* the keys that a step removes from the live entries of the cache
Evicted ==
  {k \in SeqRange(KeysOf(cleanup(cache, now))) : Position(cache', k, 1) = 0}

\* the live entry whose latest use (a successful get or a set) is oldest
LeastRecentlyUsed == StillIn(recency, cleanup(cache, now))[1]

\* C20: the memory cache is an LRU cache: a set() on a full cache evicts
\* the least recently used entry and no other, where a successful get(key)
\* and a set(key) of an existing key count as a use of the key.
C20_EvictsLeastRecentlyUsed ==
  [][ (lastCall'[1] = "set" /\ Len(cleanup(cache, now)) >= maxSize)
        => \A k \in Evicted : k = LeastRecentlyUsed ]_vars

(***************************************************************************)
(* Order of the steps of the retry loop                                    *)
(***************************************************************************)

\* the attempt of a log entry is over: its model call failed, or its
\* candidate failed the Syntax Validator, or the Render Validator answered
AttemptOver(entry) ==
  \/ entry.modelError # None
  \/ /\ entry.syntax # None
     /\ ~entry.syntax[1].valid \/ entry.render # None

\* the attempts whose candidate passed the Syntax Validator
SyntaxPassed ==
  {k \in 1..Len(log) : log[k].syntax # None /\ log[k].syntax[1].valid}

\* C21: the orchestrator is strictly sequential.  Within an attempt the
\* order is credential check, prompt build, model call, syntax validation,
\* render validation; the Render Validator is invoked only for a candidate
\* that passed the Syntax Validator in that attempt; and attempt n+1 starts
\* its model call only after the validators of attempt n have finished and
\* its verdict has been recorded (the prompt of attempt n+1 is built from it).
C21_StrictlySequential ==
  /\ ~apiKey => log = <<>> /\ modelCalls = 0
  /\ modelCalls = Len(log)
  /\ renderCalls = Cardinality(SyntaxPassed) 
  /\ \A k \in 1..Len(log) :
       /\ log[k].attempt = k
       /\ log[k].syntax # None <=> log[k].reply # None
       /\ log[k].reply # None => log[k].modelError = None
       /\ log[k].render # None => k \in SyntaxPassed
       /\ k < Len(log) =>
            /\ AttemptOver(log[k])
            /\ log[k + 1].prompt =
                 BuildPrompt(operation, description, diagramType,
                             existingPlantUML, editInstructions, k + 1,
                             AttemptError(log[k]), FeedbackUpTo(log, k))
  /\ pc = "model" =>
       /\ Len(log) > 0
       /\ log[Len(log)].reply = None
       /\ log[Len(log)].modelError = None
  /\ pc = "render" =>
       /\ Len(log) \in SyntaxPassed
       /\ log[Len(log)].render = None
  /\ pc \in {"loop", "delay", "returned", "thrown"} =>
       \A k \in 1..Len(log) : AttemptOver(log[k])

\* the second attempt reached the Render Validator after the first one went
\* through both validators and failed the second
C21_Witness ==
  /\ Len(log) = 2
  /\ 1 \in SyntaxPassed
  /\ log[1].render # None
  /\ ~log[1].render[1].valid
  /\ 2 \in SyntaxPassed
  /\ log[2].render # None

(***************************************************************************)
(* app/api/render/route.ts: the POST handler of the render route, and a    *)
(* call of the Render Validator on its own.  The handler is suspended at   *)
(* "await renderPlantUMLWeb(...)" (rpc = "awaiting").                      *)
(***************************************************************************)

\* new PlantUMLError(message, code)
PlantUMLError(message, code) ==
  [name |-> "PlantUMLError", message |-> message, code |-> code]

\* body.format || 'svg'
FormatOrDefault(f) == IF KindTruthy(f) THEN f ELSE KindStr("svg")

\* validFormats.includes(format)
IsValidFormat(f) == f.type = "string" /\ f.name \in {"svg", "png"}

\* the catch block of the render route
RenderCatchResponse(error) ==
  IF error.name = "PlantUMLError"
  THEN IF Contains(error.message, <<"NETWORK_ERROR">>)
            \/ Contains(error.message, <<"Failed to fetch">>)
       THEN ErrorResponse(503,
              <<"Unable to reach PlantUML rendering service. Please try again later.">>)
       ELSE IF Contains(error.message, <<"RENDER_ERROR">>)
       THEN ErrorResponse(400,
              <<"Failed to render diagram. Please check your PlantUML syntax.">>)
       ELSE ErrorResponse(400,
              <<"PlantUML processing error: ">> \o error.message)
  ELSE IF Contains(error.message, S_timeout)
  THEN ErrorResponse(408,
         <<"Rendering timeout. The diagram might be too complex.">>)
  ELSE ErrorResponse(500,
         <<"Internal server error while rendering diagram">>)

\* POST of /api/render from "const validation = validatePlantUML(...)" up to
\* "await renderPlantUMLWeb(...)"
RenderValidated(validation) ==
  IF ~validation.valid
  THEN [respond |-> TRUE,
        response |-> Json(400, Some(<<"Invalid PlantUML code">>), None,
                          Some(validation.errors), None)]
  ELSE [respond |-> FALSE, response |-> <<>>]

\* POST of /api/render up to "await renderPlantUMLWeb(...)"
RenderEntry(b) ==
  IF b.json = "invalid"
  THEN [respond |-> TRUE, response |-> RenderCatchResponse(JsonSyntaxError)]
  ELSE IF b.json = "null"
  THEN [respond |-> TRUE, response |-> RenderCatchResponse(NullBodyError)]
  ELSE IF ~Truthy(b.plantuml) \/ b.plantuml.type # "string"
  THEN [respond |-> TRUE,
        response |-> ErrorResponse(400,
                       <<"PlantUML code is required and must be a string">>)]
  ELSE IF TrimmedEmpty(b.plantuml.str)
  THEN [respond |-> TRUE,
        response |-> ErrorResponse(400, <<"PlantUML code cannot be empty">>)]
  ELSE IF ~IsValidFormat(FormatOrDefault(b.format))
  THEN [respond |-> TRUE,
        response |-> ErrorResponse(400,
                       <<"Invalid format. Supported formats: svg, png">>)]
  ELSE RenderValidated(validatePlantUMLForAI(b.plantuml.str, NoType))

\* POST of /api/render after renderPlantUMLWeb settled
RenderAnswer(b, fetch) ==
  IF renderPlantUMLWeb(fetch).ok
  THEN DataResponse([data |-> <<"rendered">>,
                     format |-> FormatOrDefault(b.format).name])
  ELSE RenderCatchResponse(PlantUMLError(renderPlantUMLWeb(fetch).message,
                                         renderPlantUMLWeb(fetch).code))

RenderBody(t, f) == [json |-> "object", plantuml |-> t, format |-> f]

RenderBodies ==
  {InvalidJson, NullJson,
   RenderBody(Str(T_component), KindAbsent),
   RenderBody(Str(T_component), KindStr("svg")),
   RenderBody(Str(T_component), KindStr("png")),
   RenderBody(Str(T_class), KindStr("")),
   RenderBody(Str(T_component), KindStr("gif")),
   RenderBody(Str(T_component), KindNum),
   RenderBody(Str(T_unclosed), KindStr("svg")),
   RenderBody(Str(<<" ", "\n">>), KindStr("svg")),
   RenderBody(Absent, KindStr("svg")),
   RenderBody(Num, KindAbsent)}

\* what the rendering service can do with a request: besides the outcomes
\* the orchestrator meets, more statuses and a body that cannot be read
RenderOutcomes ==
  FetchOutcomes
    \cup {[kind |-> "status", status |-> st] : st \in {204, 301, 404, 408, 503}}
    \cup {[kind |-> "body", status |-> 200]}

MaxRenderRequests == 2

RenderInit ==
  /\ apiKey \in BOOLEAN
  /\ OrchestratorAtRest
  /\ ValidatorAtRest
  /\ HttpAtRest
  /\ CacheAtRest
  /\ ConcAtRest
  /\ ExtraAtRest

\* a request arrives and its handler runs up to its response or up to the
\* await of renderPlantUMLWeb
RenderReceive(b) ==
  /\ rpc = "idle"
  /\ requests < MaxRenderRequests
  /\ route' = "render"
  /\ body' = b
  /\ requests' = requests + 1
  /\ fetched' = None
  /\ renderVerdict' = None
  /\ IF RenderEntry(b).respond
     THEN rpc' = "responded" /\ response' = Some(RenderEntry(b).response)
     ELSE rpc' = "awaiting" /\ response' = None
  /\ UNCHANGED <<orchVars, valVars, cacheVars, concVars, ttlVars, originVars, hookVars, cacheKey,
                 cachedResult>>

\* renderPlantUMLWeb settles: status 200 with the data, or the catch block
RenderFetched(fetch) ==
  /\ route = "render"
  /\ rpc = "awaiting"
  /\ fetched' = Some(fetch)
  /\ response' = Some(RenderAnswer(body, fetch))
  /\ rpc' = "responded"
  /\ UNCHANGED <<orchVars, valVars, cacheVars, concVars, ttlVars, originVars, hookVars, route, body,
                 cacheKey, cachedResult, requests, renderVerdict>>

\* the response is sent and the handler is over
RenderClose ==
  /\ route = "render"
  /\ rpc = "responded"
  /\ rpc' = "idle"
  /\ route' = "none"
  /\ body' = <<>>
  /\ response' = None
  /\ fetched' = None
  /\ UNCHANGED <<orchVars, valVars, cacheVars, concVars, ttlVars, originVars, hookVars, cacheKey,
                 cachedResult, requests, renderVerdict>>

\* a call of validatePlantUMLByRendering while no request is handled
ValidateByRendering(fetch) ==
  /\ rpc = "idle"
  /\ fetched' = Some(fetch)
  /\ renderVerdict' = Some(validatePlantUMLByRendering(fetch))
  /\ UNCHANGED <<orchVars, valVars, cacheVars, concVars, ttlVars, originVars, hookVars, httpVars>>

RenderNext ==
  \/ \E b \in RenderBodies : RenderReceive(b)
  \/ \E fetch \in RenderOutcomes : RenderFetched(fetch)
  \/ RenderClose
  \/ \E fetch \in RenderOutcomes : ValidateByRendering(fetch)

RenderSpec == RenderInit /\ [][RenderNext]_vars

(***************************************************************************)
(* Properties of the Render Validator and of the render route              *)
(***************************************************************************)

\* the rendering service answered with a success status and its body was read
FetchSucceeded(fetch) == fetch.kind = "status" /\ fetch.status \in 200..299

\* the position of an error in a verdict, 0 when it is not there
RECURSIVE ErrorAt(_, _, _)
ErrorAt(errors, e, i) ==
  IF i > Len(errors) THEN 0
  ELSE IF errors[i] = e THEN i
  ELSE ErrorAt(errors, e, i + 1)

\* the verdict holds the error, paired with the suggestion
HasPair(v, e, s) ==
  /\ ErrorAt(v.errors, e, 1) > 0
  /\ ErrorAt(v.errors, e, 1) <= Len(v.suggestions)
  /\ v.suggestions[ErrorAt(v.errors, e, 1)] = s

\* the verdict holds the generic rendering-failure error
HasGeneric(v) ==
  \E i \in 1..Len(v.errors) : StartsWith(v.errors[i], P_renderingFailed)

\* C22: the Render Validator never throws.  When the rendering fetch
\* succeeds it returns valid = true with no errors; on a non-success HTTP
\* status, a network failure or an encoding failure it returns valid = false
\* with at least one error: a tailored error and suggestion for each known
\* substring found in the failure text ('400', 'syntax', 'timeout'), and the
\* generic 'PlantUML rendering failed' error exactly when none of them is
\* found.
C22_RenderVerdict ==
  renderVerdict # None =>
    /\ fetched # None
    /\ LET v == renderVerdict[1]
           text == renderPlantUMLWeb(fetched[1]).message
           is400 == Contains(text, S_400)
           isSyntax == Contains(text, S_syntax) \/ Contains(text, S_Syntax)
           isTimeout == Contains(text, S_timeout) \/ Contains(text, S_Timeout)
       IN  IF FetchSucceeded(fetched[1])
           THEN v = [valid |-> TRUE, errors |-> <<>>, suggestions |-> <<>>]
           ELSE /\ v.valid = FALSE
                /\ Len(v.errors) >= 1
                /\ Len(v.suggestions) = Len(v.errors)
                /\ is400 <=>
                     HasPair(v, <<"PlantUML server rejected the diagram syntax">>,
                       <<"Check for syntax errors, invalid keywords, or malformed diagram structure">>)
                /\ is400 <=>
                     ErrorAt(v.errors,
                       <<"PlantUML server rejected the diagram syntax">>, 1) > 0
                /\ isSyntax <=>
                     ErrorAt(v.errors, <<"Syntax error in PlantUML code">>, 1) > 0
                /\ isTimeout <=>
                     ErrorAt(v.errors,
                       <<"PlantUML rendering timeout - diagram too complex">>,
                       1) > 0
                /\ HasGeneric(v) <=> ~(is400 \/ isSyntax \/ isTimeout)
                /\ HasGeneric(v) =>
                     v = [valid |-> FALSE,
                          errors |-> <<P_renderingFailed \o <<": ">> \o text>>,
                          suggestions |->
                            << <<"Review the entire PlantUML code for syntax errors or invalid constructs">> >>]

\* the service answered 400 and the validator returned the tailored pair
C22_Witness ==
  /\ renderVerdict # None
  /\ fetched = Some([kind |-> "status", status |-> 400])
  /\ renderVerdict[1].valid = FALSE
  /\ renderVerdict[1].errors =
       << <<"PlantUML server rejected the diagram syntax">> >>

\* C29: when the rendering service cannot be reached (the fetch of
\* renderPlantUMLWeb fails at network level), POST /api/render answers with
\* status 503 ('Unable to reach PlantUML rendering service'); when the
\* service answers with a non-success status, it answers with status 400
\* and the message 'Failed to render diagram. Please check your PlantUML
\* syntax.'.
C29_RenderFailureStatus ==
  (route = "render" /\ rpc = "responded" /\ fetched # None) =>
    /\ fetched[1].kind = "network" =>
         /\ response[1].status = 503
         /\ response[1].error =
              Some(<<"Unable to reach PlantUML rendering service. Please try again later.">>)
    /\ (fetched[1].kind = "status" /\ ~FetchSucceeded(fetched[1])) =>
         /\ response[1].status = 400
         /\ response[1].error =
              Some(<<"Failed to render diagram. Please check your PlantUML syntax.">>)

(***************************************************************************)
(* The Syntax Validator called with a diagram kind, on texts made of the   *)
(* statements of the seven kinds of diagram                                *)
(***************************************************************************)

KindLines ==
  << <<"[", "A", "]", " ">> \o S_longArrow \o <<" ", "[", "B", "]">>,
     S_class \o <<"A", " ", "{">>,
     <<"}">>,
     S_participant \o <<" ", "A">>,
     S_actor \o <<" ", "U">>,
     <<"A", " ">> \o S_arrow \o <<" ", "B">>,
     <<"(", "P", "a", "y", ")">>,
     <<":", "p", "a", "y", ";">>,
     S_start,
     S_initial \o <<" ">> \o S_longArrow \o <<" ", "S">>,
     S_state \o <<" ", "S">>,
     S_node \o <<" ", "N">> >>

MaxKindLines == 2

\* the chosen statements, one per line
RECURSIVE KindBody(_, _)
KindBody(choice, i) ==
  IF i > Len(choice) THEN <<>>
  ELSE KindLines[choice[i]] \o NL \o KindBody(choice, i + 1)

KindChoices ==
  UNION {[1..n -> 1..Len(KindLines)] : n \in 0..MaxKindLines}

\* each body between '@startuml' and '@enduml', and on its own
KindTexts ==
  {S_startuml \o NL \o KindBody(choice, 1) \o S_enduml : choice \in KindChoices}
    \cup {KindBody(choice, 1) : choice \in KindChoices}

KindInit ==
  /\ valText \in KindTexts
  /\ valType \in DiagramTypes
  /\ valVerdict = None
  /\ apiKey = TRUE
  /\ OrchestratorAtRest
  /\ HttpAtRest
  /\ CacheAtRest
  /\ ConcAtRest
  /\ ExtraAtRest

KindNext == Validate

KindSpec == KindInit /\ [][KindNext]_vars

(***************************************************************************)
(* Properties of the kind-specific checks                                  *)
(***************************************************************************)

\* some line of the text, trimmed, satisfies the test
SomeLine(text, Test(_)) ==
  \E i \in 1..Len(Split(text, "\n")) : Test(Trim(Split(text, "\n")[i]))

IsClassBlock(line) == StartsWith(line, S_class) /\ Contains(line, <<"{">>)

IsParticipant(line) ==
  StartsWith(line, S_participant) \/ StartsWith(line, S_actor)

IsActor(line) == StartsWith(line, S_actor)

IsMessage(line) == Contains(line, S_arrow)

IsUseCase(line) == Contains(line, <<"(">>) /\ Contains(line, <<")">>)

IsComponent(line) == Contains(line, <<"[">>) /\ Contains(line, <<"]">>)

IsActivity(line) ==
  Len(line) >= 2 /\ line[1] = ":" /\ line[Len(line)] = ";"

IsStartStatement(line) == line = S_start

IsStateSyntax(line) == StartsWith(line, S_state)

IsNode(line) == StartsWith(line, S_node)

HasInitial(line) == Contains(line, S_initial)

\* the text lacks the construct its kind of diagram requires
LacksConstruct(text, kind) ==
  CASE kind = "component" -> ~SomeLine(text, IsComponent)
    [] kind = "class" -> ~SomeLine(text, IsClassBlock)
    [] kind = "sequence" ->
         ~SomeLine(text, IsParticipant) \/ ~SomeLine(text, IsMessage)
    [] kind = "usecase" ->
         ~SomeLine(text, IsActor) \/ ~SomeLine(text, IsUseCase)
    [] kind = "activity" ->
         \/ ~SomeLine(text, IsActivity)
         \/ ~SomeLine(text, IsStartStatement) /\ ~SomeLine(text, HasInitial)
    [] kind = "state" ->
         ~SomeLine(text, IsStateSyntax) /\ ~SomeLine(text, HasInitial)
    [] kind = "deployment" -> ~SomeLine(text, IsNode)
    [] OTHER -> FALSE

\* C23: when a diagram kind is supplied, the Syntax Validator rejects every
\* text that lacks the construct required for that kind (bracketed component
\* syntax; a class block; a participant or actor declaration and a message
\* arrow; an actor and parenthesized use-case syntax; activity statements
\* and a start point, i.e. a 'start' statement or '[*]'; state syntax or an
\* initial/final marker; a node declaration), also when the text contains
\* '@startuml' and '@enduml'.
C23_KindConstructRequired ==
  (Validated /\ valType \in DiagramTypes /\ LacksConstruct(valText, valType))
    => ~valVerdict[1].valid

(***************************************************************************)
(* Properties of the backoff                                               *)
(***************************************************************************)

\* the attempt indices for which the length of the delay is examined
MaxAttemptIndex == 5

BackoffCap == 3000

\* the attempts so far that failed with an error the loop retries, and
\* that were not the last attempt allowed
RetriedAttempts ==
  {k \in 1..Len(log) :
     /\ k < MAX_RETRIES
     /\ AttemptError(log[k]) # None
     /\ ~IsNonRetriable(operation, AttemptError(log[k])[1])}

TtlKeys == {<<>>, <<"a">>, <<"b">>}

\* the times to live given to set(): half a step of the clock, and the
\* default
TtlChoices == {100 * 1000, DefaultTtl}

TtlData == {"v", "w"}

NoCalls == [k \in TtlKeys |-> None]

TtlInit ==
  /\ cache = <<>>
  /\ maxSize = CacheMaxSize
  /\ now = 0
  /\ recency = <<>>
  /\ lastCall = <<"new">>
  /\ lastSet = NoCalls
  /\ gone = [k \in TtlKeys |-> FALSE]
  /\ returned = None
  /\ apiKey = TRUE
  /\ OrchestratorAtRest
  /\ ValidatorAtRest
  /\ HttpAtRest
  /\ ConcAtRest
  /\ RenderAtRest
  /\ OriginAtRest
  /\ HookAtRest

\* cache.set(key, data, ttlMs)
CallSet(key, data, ttlMs) ==
  /\ cache' = set(cache, maxSize, key, data, ttlMs, now)
  /\ lastSet' = [lastSet EXCEPT ![key] =
                   Some([data |-> data, time |-> now, ttl |-> ttlMs])]
  /\ gone' = [gone EXCEPT ![key] = FALSE]
  /\ returned' = None
  /\ UNCHANGED <<maxSize, now, recency, lastCall, orchVars, valVars, httpVars,
                 concVars, renderVars, originVars, hookVars>>

\* cache.get(key)
CallGet(key) ==
  /\ cache' = get(cache, key, now).cache
  /\ returned' = Some([key |-> key, data |-> get(cache, key, now).data])
  /\ gone' = IF get(cache, key, now).data = None
             THEN [gone EXCEPT ![key] = TRUE]
             ELSE gone
  /\ UNCHANGED <<maxSize, now, recency, lastCall, lastSet, orchVars, valVars,
                 httpVars, concVars, renderVars, originVars, hookVars>>

\* cache.has(key): return this.get(key) !== null
CallHas(key) ==
  /\ cache' = get(cache, key, now).cache
  /\ returned' = None
  /\ gone' = IF get(cache, key, now).data = None
             THEN [gone EXCEPT ![key] = TRUE]
             ELSE gone
  /\ UNCHANGED <<maxSize, now, recency, lastCall, lastSet, orchVars, valVars,
                 httpVars, concVars, renderVars, originVars, hookVars>>

\* cache.delete(key)
CallDelete(key) ==
  /\ cache' = MapDelete(cache, key)
  /\ returned' = None
  /\ UNCHANGED <<maxSize, now, recency, lastCall, lastSet, gone, orchVars,
                 valVars, httpVars, concVars, renderVars, originVars, hookVars>>

\* cache.clear()
CallClear ==
  /\ cache' = <<>>
  /\ returned' = None
  /\ UNCHANGED <<maxSize, now, recency, lastCall, lastSet, gone, orchVars,
                 valVars, httpVars, concVars, renderVars, originVars, hookVars>>

\* cache.size()
CallSize ==
  /\ cache' = size(cache, now).cache
  /\ returned' = None
  /\ UNCHANGED <<maxSize, now, recency, lastCall, lastSet, gone, orchVars,
                 valVars, httpVars, concVars, renderVars, originVars, hookVars>>

\* time passes
TtlTick ==
  /\ now < CacheMaxNow
  /\ now' = now + CacheClockStep
  /\ returned' = None
  /\ UNCHANGED <<cache, maxSize, recency, lastCall, lastSet, gone, orchVars,
                 valVars, httpVars, concVars, renderVars, originVars, hookVars>>

TtlNext ==
  \/ \E key \in TtlKeys : \E data \in TtlData :
       \E ttlMs \in TtlChoices : CallSet(key, data, ttlMs)
  \/ \E key \in TtlKeys : CallGet(key)
  \/ \E key \in TtlKeys : CallHas(key)
  \/ \E key \in TtlKeys : CallDelete(key)
  \/ CallClear
  \/ CallSize
  \/ TtlTick

TtlSpec == TtlInit /\ [][TtlNext]_vars

(***************************************************************************)
(* Properties of the MemoryCache under all its operations                  *)
(***************************************************************************)

\* C25: after any sequence of set, get, has, delete, clear and size
\* operations on a MemoryCache built with maxSize N >= 1, for any keys (the
\* empty-string key included) and any times to live, the number of stored
\* entries never exceeds N.
C25_SizeBounded == Len(cache) <= maxSize

\* the time elapsed since the latest set() of the key is within the time to
\* live given at that set()
Fresh(key) ==
  /\ lastSet[key] # None
  /\ now - lastSet[key][1].time <= lastSet[key][1].ttl

\* C26: the cache never serves an expired entry.  get(key) returns the
\* stored data only if the time elapsed since the latest set of the key is
\* not greater than the time to live given at that set; otherwise it
\* returns null and the entry is removed, so that a later get of the key
\* with no set of it in between returns null as well.
C26_NeverServesExpired ==
  returned # None =>
    LET key == returned[1].key
    IN  /\ returned[1].data # None =>
             /\ Fresh(key)
             /\ returned[1].data = Some(lastSet[key][1].data)
             /\ ~gone[key]
        /\ ~Fresh(key) =>
             /\ returned[1].data = None
             /\ Position(cache, key, 1) = 0
        /\ returned[1].data = None => Position(cache, key, 1) = 0

\* a get of a key whose time to live has run out returned null and the entry
\* is gone, while another entry is still stored
C26_Witness ==
  /\ returned # None
  /\ returned[1].data = None
  /\ lastSet[returned[1].key] # None
  /\ now - lastSet[returned[1].key][1].time > lastSet[returned[1].key][1].ttl
  /\ Position(cache, returned[1].key, 1) = 0
  /\ Len(cache) >= 1

(***************************************************************************)
(* The feedback and the diagram text of an exhausted call                  *)
(***************************************************************************)

\* the attempts in which the model returned a candidate
Replied == {k \in 1..Len(log) : log[k].reply # None}

\* the latest of them
LastReplied == CHOOSE k \in Replied : \A j \in Replied : j <= k

\* the verdict entry k leaves behind when a validator fails its candidate,
\* from the verdicts of the two validators on that candidate
VerdictOf(k) ==
  IF ~validatePlantUMLForAI(log[k].reply[1].plantuml,
                            SyntaxKind(operation, diagramType)).valid
  THEN [errors |->
          validatePlantUMLForAI(log[k].reply[1].plantuml,
                                SyntaxKind(operation, diagramType)).errors,
        suggestions |->
          validatePlantUMLForAI(log[k].reply[1].plantuml,
                                SyntaxKind(operation, diagramType)).suggestions]
  ELSE [errors |-> log[k].render[1].errors,
        suggestions |->
          log[k].render[1].suggestions
            \o << <<"The syntax validation passed, but rendering failed - check for PlantUML server compatibility">>,
                  <<"Ensure all diagram elements are properly formatted for the PlantUML server">> >>]

\* C27: on retry exhaustion the validation errors and suggestions and the
\* diagram text embedded in the thrown error come from the same attempt:
\* whenever the model returned a candidate in some attempt, the recorded
\* verdict (lastValidationResult) is the failing verdict of exactly that
\* candidate (lastPlantUMLAttempt), also when a later attempt failed in the
\* model call before producing a candidate.
C27_FeedbackMatchesText ==
  /\ (Replied # {} /\ pc \in {"loop", "model", "delay", "thrown"}) =>
       /\ lastPlantUMLAttempt = log[LastReplied].reply[1].plantuml
       /\ lastValidationResult = Some(VerdictOf(LastReplied))
  /\ (Replied = {} /\ pc # "idle") =>
       /\ lastPlantUMLAttempt = <<>>
       /\ lastValidationResult = None
  /\ (Exhausted /\ Replied # {}) =>
       thrown =
         Some(AIError(ExhaustionMessage(operation,
                        Some(VerdictOf(LastReplied)),
                        log[LastReplied].reply[1].plantuml)))

\* the call is exhausted: the first attempt got a candidate that a validator
\* failed, the second attempt failed in the model call, and the error thrown
\* embeds the text of the first candidate
C27_Witness ==
  /\ Exhausted
  /\ Len(log) = 2
  /\ log[1].reply # None
  /\ log[1].reply[1].plantuml # <<>>
  /\ log[2].modelError # None
  /\ lastPlantUMLAttempt = log[1].reply[1].plantuml
  /\ Contains(thrown[1].message, log[1].reply[1].plantuml)

(***************************************************************************)
(* Whose result a cache hit of the generate route returns                  *)
(***************************************************************************)

\* the store that wrote the entry now kept under the key
LatestStore(key) ==
  CHOOSE i \in 1..Len(storedFor) :
    /\ storedFor[i].key = key
    /\ \A j \in (i + 1)..Len(storedFor) : storedFor[j].key # key

\* C28: a generate response served from the cache was produced by the
\* orchestrator for the same request: the cached entry returned for
\* (description, kind) was stored by an earlier request whose trimmed,
\* lower-cased description and diagram kind are equal to those of the
\* current request; two requests with different normalized descriptions or
\* different kinds never share a cache entry.
C28_CacheHitSameRequest ==
  (route = "generate" /\ rpc = "responded" /\ cachedResult # None) =>
    /\ \E i \in 1..Len(storedFor) : storedFor[i].key = cacheKey[1]
    /\ ToLowerCase(Trim(storedFor[LatestStore(cacheKey[1])].description))
         = ToLowerCase(Trim(body.description.str))
    /\ storedFor[LatestStore(cacheKey[1])].diagramType
         = KindOrDefault(body.diagramType)

\* a request for ' shop ' without a kind is served the entry stored for
\* 'Shop' and component
C28_SameRequestHit ==
  /\ route = "generate"
  /\ rpc = "responded"
  /\ cachedResult # None
  /\ body.description.str = D_shopSpaced
  /\ storedFor[LatestStore(cacheKey[1])].description = D_shop

(***************************************************************************)
(* hooks/useDiagram: the React state of the hook and the requests it has   *)
(* sent.  A call runs up to its await of fetch in one step (the argument   *)
(* check, the two setState calls) and from the settled fetch to its return *)
(* or throw in another (the awaits in between change no state).  setState  *)
(* is always given an updater of the previous state, so the updates apply  *)
(* in the order of the steps.  Date.now() timestamps are left out of the   *)
(* diagram data.                                                           *)
(***************************************************************************)

\* history: [data, ...prev.history.slice(0, 9)]
HistoryKept == 9

\* setState(prev => ({ ...prev, error }))
setError(state, error) == [state EXCEPT !.error = Some(error)]

\* setState(prev => ({ ...prev, error: null }))
clearError(state) == [state EXCEPT !.error = None]

addToHistory(state, data) ==
  [state EXCEPT !.history =
     <<data>> \o SubSeq(state.history, 1,
                        IF Len(state.history) < HistoryKept
                        THEN Len(state.history) ELSE HistoryKept)]

\* the busy flag of each kind of call
BusyFlag(kind) ==
  CASE kind = "generate" -> "isGenerating"
    [] kind = "edit" -> "isEditing"
    [] kind = "render" -> "isRendering"

\* setState(prev => ({ ...prev, isGenerating: true, error: null }));
\* clearError(); and the request is sent
Started(state, kind) ==
  clearError([state EXCEPT ![BusyFlag(kind)] = TRUE, !.error = None])

\* the message thrown for a response that is not ok
NotOkMessage(kind, errorData) ==
  IF kind # "render" /\ errorData.details /\ errorData.error = None
  THEN <<"Cannot read properties of undefined (reading 'includes')">>
  ELSE IF errorData.error = None \/ errorData.error = Some(<<>>)
  THEN CASE kind = "generate" -> <<"Failed to generate diagram">>
         [] kind = "edit" -> <<"Failed to edit diagram">>
         [] kind = "render" -> <<"Failed to render diagram">>
  ELSE errorData.error[1]

\* catch (error): setError(message); setState(busy flag false)
Failed(state, kind, message) ==
  [setError(state, message) EXCEPT ![BusyFlag(kind)] = FALSE]

\* { ...state.data!, plantuml: result.plantuml }, with the data the hook had
\* when the call was made
UpdatedData(base, json) ==
  IF base = None
  THEN [description |-> <<"undefined">>, plantuml |-> json.plantuml,
        diagramType |-> "undefined"]
  ELSE [base[1] EXCEPT !.plantuml = json.plantuml]

\* the rest of a call after its response arrived with response.ok
Succeeded(state, request, json) ==
  CASE request.kind = "generate" ->
         addToHistory([state EXCEPT !.data = Some(json),
                                    !.isGenerating = FALSE], json)
    [] request.kind = "edit" ->
         addToHistory([state EXCEPT
                         !.data = Some(UpdatedData(request.base, json)),
                         !.isEditing = FALSE],
                      UpdatedData(request.base, json))
    [] request.kind = "render" -> [state EXCEPT !.isRendering = FALSE]

\* the rest of a call after its fetch settled
Settled(state, request, outcome) ==
  IF outcome.kind = "thrown"
  THEN Failed(state, request.kind,
              IF outcome.isError THEN outcome.message
              ELSE <<"Unknown error occurred">>)
  ELSE IF ~outcome.ok
  THEN Failed(state, request.kind, NotOkMessage(request.kind, outcome))
  ELSE Succeeded(state, request, outcome.result)

\* the calls made on the hook in one run
MaxHookCalls == 3

HookDescriptions == {<<" ">>, D_shop}

HookTexts == {<<>>, <<"A">>}

HookInstructions == {<<" ">>, I_addB}

HookResults ==
  {[description |-> <<"d">>, plantuml |-> t, diagramType |-> "component"] :
     t \in {<<"A">>, <<"B">>}}

\* what fetch and the response do
HookOutcomes ==
  {[kind |-> "response", ok |-> TRUE, result |-> r] : r \in HookResults}
    \cup {[kind |-> "response", ok |-> FALSE, error |-> e, details |-> d] :
            e \in {None, Some(<<"Invalid diagram type">>)}, d \in BOOLEAN}
    \cup {[kind |-> "thrown", isError |-> TRUE, message |-> <<"Failed to fetch">>],
          [kind |-> "thrown", isError |-> FALSE, message |-> <<>>]}

HookInit ==
  /\ HookAtRest
  /\ apiKey = TRUE
  /\ OrchestratorAtRest
  /\ ValidatorAtRest
  /\ HttpAtRest
  /\ CacheAtRest
  /\ ConcAtRest
  /\ RenderAtRest
  /\ TtlAtRest
  /\ OriginAtRest

HookRest ==
  <<orchVars, valVars, httpVars, cacheVars, concVars, renderVars, ttlVars,
    originVars>>

\* a call of generateDiagram, editDiagram or renderDiagram up to its fetch;
\* blank says that the check of the arguments failed
HookCall(kind, blank, message) ==
  /\ hookCalls < MaxHookCalls
  /\ hookCalls' = hookCalls + 1
  /\ IF blank
     THEN /\ hook' = setError(hook, message)
          /\ UNCHANGED inflight
     ELSE /\ hook' = Started(hook, kind)
          /\ inflight' = inflight \cup {[id |-> hookCalls + 1, kind |-> kind,
                                         base |-> hook.data]}
  /\ UNCHANGED HookRest

HookGenerateDiagram(desc) ==
  HookCall("generate", TrimmedEmpty(desc), <<"Description is required">>)

HookEditDiagram(plantuml, instructions) ==
  HookCall("edit", TrimmedEmpty(plantuml) \/ TrimmedEmpty(instructions),
           <<"Both PlantUML code and edit instructions are required">>)

HookRenderDiagram(plantuml) ==
  HookCall("render", TrimmedEmpty(plantuml),
           <<"PlantUML code is required for rendering">>)

\* the fetch of a request settles and the call runs to its end
HookSettle(request, outcome) ==
  /\ request \in inflight
  /\ hook' = Settled(hook, request, outcome)
  /\ inflight' = inflight \ {request}
  /\ UNCHANGED <<hookCalls, HookRest>>

loadFromHistory(index) ==
  /\ hookCalls < MaxHookCalls
  /\ hookCalls' = hookCalls + 1
  /\ hook' = IF index >= 0 /\ index < Len(hook.history)
             THEN [hook EXCEPT !.data = Some(hook.history[index + 1])]
             ELSE hook
  /\ UNCHANGED <<inflight, HookRest>>

HookClearError ==
  /\ hook.error # None
  /\ hook' = clearError(hook)
  /\ UNCHANGED <<inflight, hookCalls, HookRest>>

reset ==
  /\ hookCalls < MaxHookCalls
  /\ hookCalls' = hookCalls + 1
  /\ hook' = [isGenerating |-> FALSE, isEditing |-> FALSE,
              isRendering |-> FALSE, data |-> None, error |-> None,
              history |-> <<>>]
  /\ UNCHANGED <<inflight, HookRest>>

HookNext ==
  \/ \E desc \in HookDescriptions : HookGenerateDiagram(desc)
  \/ \E plantuml \in HookTexts : \E instructions \in HookInstructions :
       HookEditDiagram(plantuml, instructions)
  \/ \E plantuml \in HookTexts : HookRenderDiagram(plantuml)
  \/ \E request \in inflight : \E outcome \in HookOutcomes :
       HookSettle(request, outcome)
  \/ \E index \in 0..1 : loadFromHistory(index)
  \/ HookClearError
  \/ reset

HookSpec == HookInit /\ [][HookNext]_vars

\* a request of the kind has been sent and is not settled
Pending(kind) == \E request \in inflight : request.kind = kind

\* C30: under every interleaving of (possibly overlapping) generateDiagram,
\* editDiagram and renderDiagram calls, each busy flag (isGenerating,
\* isEditing, isRendering) is true exactly while at least one request of its
\* kind is in flight: it is set when a request starts, is false again after
\* every request has succeeded or failed, and is never false while a request
\* of that kind is still pending.
C30_BusyWhilePending ==
  /\ hook.isGenerating <=> Pending("generate")
  /\ hook.isEditing <=> Pending("edit")
  /\ hook.isRendering <=> Pending("render")

\* the part that holds: a flag that is set has a request of its kind pending
C30_BusyOnlyWhilePending ==
  /\ hook.isGenerating => Pending("generate")
  /\ hook.isEditing => Pending("edit")
  /\ hook.isRendering => Pending("render")

====
